---------------------------- MODULE Spec2Model ----------------------------
(***************************************************************************)
(* Dataset detection and header harmonisation of the WOW Risk Dashboard.   *)
(*                                                                         *)
(*   io/schemas.py        alias_variants, DatasetSpec, the shipped registry*)
(*   io/loader.py         normalize_headers, _match_alias,                 *)
(*                        _evaluate_dataset, detect_file_profile,          *)
(*                        load_uploaded_files                              *)
(*   components/inputs.py _match_columns, render_inputs_panel              *)
(*   app.py               _handle_file_uploads                             *)
(*                                                                         *)
(* Python str values are TLA+ strings; a list is a sequence; a dict is a   *)
(* function together with the sequence of its keys in insertion order      *)
(* where the code depends on that order.                                   *)
(***************************************************************************)
EXTENDS Integers, Sequences, FiniteSets, TLC

----------------------------------------------------------------------------
(* Python str primitives, restricted to ASCII.                             *)

UPPERCASE == "ABCDEFGHIJKLMNOPQRSTUVWXYZ"
LOWERCASE == "abcdefghijklmnopqrstuvwxyz"
DIGITS    == "0123456789"

CharAt(s, i) == SubSeq(s, i, i)

CharsOf(s) == { CharAt(s, i) : i \in 1..Len(s) }

UpperChars == CharsOf(UPPERCASE)
LowerChars == CharsOf(LOWERCASE)
DigitChars == CharsOf(DIGITS)

\* str.isspace for the ASCII whitespace str.strip() removes
WhitespaceChars == {" ", "\t", "\n", "\r", "\f"}

ToLowerChar ==
  [c \in UpperChars |->
     LET i == CHOOSE k \in 1..Len(UPPERCASE) : CharAt(UPPERCASE, k) = c
     IN  CharAt(LOWERCASE, i)]

\* str.lower()
RECURSIVE lower(_)
lower(s) ==
  IF Len(s) = 0 THEN ""
  ELSE LET c == CharAt(s, 1)
       IN  (IF c \in UpperChars THEN ToLowerChar[c] ELSE c)
             \o lower(SubSeq(s, 2, Len(s)))

\* str.lstrip() / str.rstrip() / str.strip()
RECURSIVE lstrip(_)
lstrip(s) ==
  IF Len(s) > 0 /\ CharAt(s, 1) \in WhitespaceChars
  THEN lstrip(SubSeq(s, 2, Len(s)))
  ELSE s

RECURSIVE rstrip(_)
rstrip(s) ==
  IF Len(s) > 0 /\ CharAt(s, Len(s)) \in WhitespaceChars
  THEN rstrip(SubSeq(s, 1, Len(s) - 1))
  ELSE s

strip(s) == rstrip(lstrip(s))

\* str.replace(ch, "") for a one-character ch
RECURSIVE remove_char(_, _)
remove_char(s, ch) ==
  IF Len(s) = 0 THEN ""
  ELSE (IF CharAt(s, 1) = ch THEN "" ELSE CharAt(s, 1))
         \o remove_char(SubSeq(s, 2, Len(s)), ch)

\* str.startswith(prefix)
startswith(s, prefix) ==
  /\ Len(prefix) <= Len(s)
  /\ SubSeq(s, 1, Len(prefix)) = prefix

\* prefix in s
contains(s, sub) ==
  \E i \in 1..(Len(s) - Len(sub) + 1) : SubSeq(s, i, i + Len(sub) - 1) = sub

\* sep.join(parts)
RECURSIVE join(_, _)
join(sep, parts) ==
  IF Len(parts) = 0 THEN ""
  ELSE IF Len(parts) = 1 THEN parts[1]
  ELSE parts[1] \o sep \o join(sep, Tail(parts))

SeqContains(seq, x) == \E i \in 1..Len(seq) : seq[i] = x

----------------------------------------------------------------------------
(* io/schemas.py: alias_variants                                           *)

\* fault seeded for alias_variants: a variant already present is appended
\* again
add_keeps_duplicates(variants, value) ==
  LET v == strip(value)
  IN  IF Len(v) > 0 THEN Append(variants, v) ELSE variants

\* the nested add(): strip, then append unless empty or already present
add(variants, value) ==
  LET v == strip(value)
  IN  IF Len(v) > 0 /\ ~SeqContains(variants, v) THEN Append(variants, v)
      ELSE variants

\* length of the longest run of characters of class cls starting at s[i]
RECURSIVE RunLen(_, _, _)
RunLen(s, i, cls) ==
  IF i <= Len(s) /\ CharAt(s, i) \in cls THEN 1 + RunLen(s, i + 1, cls) ELSE 0

\* re.findall(r"[A-Z]+[a-z0-9]*|[a-z0-9]+", name), scanning from position i
RECURSIVE findall_tokens(_, _)
findall_tokens(name, i) ==
  IF i > Len(name) THEN << >>
  ELSE LET up  == RunLen(name, i, UpperChars)
           low == RunLen(name, i + up, LowerChars \cup DigitChars)
       IN  IF up + low = 0 THEN findall_tokens(name, i + 1)
           ELSE << SubSeq(name, i, i + up + low - 1) >>
                  \o findall_tokens(name, i + up + low)

LowerAll(seq) == [i \in 1..Len(seq) |-> lower(seq[i])]

RECURSIVE add_extras(_, _)
add_extras(variants, extras) ==
  IF Len(extras) = 0 THEN variants
  ELSE LET extra == Head(extras)
           v1 == add(variants, extra)
           v2 == add(v1, lower(extra))
           v3 == add(v2, remove_char(extra, "_"))
       IN  add_extras(v3, Tail(extras))

alias_variants(name, extras) ==
  LET v1 == add(<< >>, name)
      v2 == add(v1, remove_char(name, " "))
      v3 == add(v2, lower(name))
      v4 == add(v3, lower(remove_char(name, " ")))
      tokens == findall_tokens(name, 1)
      snake == join("_", LowerAll(tokens))
      v5 == IF Len(tokens) > 0
            THEN add(add(v4, snake), remove_char(snake, "_"))
            ELSE v4
  IN  add_extras(v5, extras)

----------------------------------------------------------------------------
(* io/schemas.py: the shipped registry.  alias_for falls back to [field].  *)

INSTRUMENT_REFERENCE_ALIASES ==
  [ instrumentIdentifier |-> alias_variants("instrumentIdentifier", << "instrument_id" >>),
    portfolioIdentifier |-> alias_variants("portfolioIdentifier", << "portfolio_id" >>),
    reportingDate |-> alias_variants("reportingDate", << "reporting_date" >>),
    asOfDate |-> alias_variants("asOfDate", << "as_of_date" >>),
    borrowerZipCode |-> alias_variants("borrowerZipCode", << "borrower_zip_code", "borrower_zip" >>),
    collateralZipCode |-> alias_variants("collateralZipCode", << "collateral_zip_code", "collateral_zip" >>),
    borrowerState |-> alias_variants("borrowerState", << "borrower_state" >>),
    collateralState |-> alias_variants("collateralState", << "collateral_state" >>),
    geographyCode |-> alias_variants("geographyCode", << "geography_code", "cbsa_code", "msa_code" >>),
    occupancyStatus |-> alias_variants("occupancyStatus", << "occupancy_status" >>),
    propertyStatus |-> alias_variants("propertyStatus", << "property_status" >>),
    loanPropertyGroupIdentifier |-> alias_variants("loanPropertyGroupIdentifier", << "loan_property_group_identifier", "property_group_id" >>),
    assetClass |-> alias_variants("assetClass", << "asset_class" >>),
    dealName |-> alias_variants("dealName", << "deal_name" >>),
    cusip |-> alias_variants("cusip", << "cusip_number" >>),
    obligorName |-> alias_variants("obligorName", << "obligor_name", "borrowerName" >>) ]

INSTRUMENT_RISK_METRIC_ALIASES ==
  [ instrumentIdentifier |-> alias_variants("instrumentIdentifier", << "instrument_id" >>),
    reportingDate |-> alias_variants("reportingDate", << "reporting_date" >>),
    asOfDate |-> alias_variants("asOfDate", << "as_of_date" >>),
    annualizedCumulativePD |-> alias_variants("annualizedCumulativePD", << "annualized_pd" >>),
    forwardPD |-> alias_variants("forwardPD", << "forward_pd" >>),
    cumulativePD |-> alias_variants("cumulativePD", << "cumulative_pd" >>),
    marginalPD |-> alias_variants("marginalPD", << "marginal_pd" >>),
    maturityRiskPD |-> alias_variants("maturityRiskPD", << "maturity_risk_pd" >>),
    lgd |-> alias_variants("lgd", << "lossGivenDefault" >>),
    lossRateAnnualized |-> alias_variants("lossRateAnnualized", << "loss_rate_annualized" >>),
    lossRateCumulative |-> alias_variants("lossRateCumulative", << "loss_rate_cumulative" >>),
    ead |-> alias_variants("ead", << "exposureAtDefault" >>),
    ccf |-> alias_variants("ccf", << >>),
    ugd |-> alias_variants("ugd", << >>),
    prepaymentRate |-> alias_variants("prepaymentRate", << "prepayment_rate" >>),
    forwardPrepaymentRate |-> alias_variants("forwardPrepaymentRate", << "forward_prepayment_rate" >>),
    cumulativePrepaymentRate |-> alias_variants("cumulativePrepaymentRate", << "cumulative_prepayment_rate" >>),
    expectedCreditLossAmount |-> alias_variants("expectedCreditLossAmount", << "expected_credit_loss_amount" >>),
    exposure |-> alias_variants("exposure", << >>) ]

INSTRUMENT_RESULT_ALIASES ==
  [ instrumentIdentifier |-> alias_variants("instrumentIdentifier", << "instrument_id" >>),
    portfolioIdentifier |-> alias_variants("portfolioIdentifier", << "portfolio_id" >>),
    reportingDate |-> alias_variants("reportingDate", << "reporting_date" >>),
    asOfDate |-> alias_variants("asOfDate", << "as_of_date" >>),
    riskClassification |-> alias_variants("riskClassification", << "risk_classification" >>),
    longTermRatingFromStageAllocation |-> alias_variants("longTermRatingFromStageAllocation", << "long_term_rating_stage_allocation" >>),
    longTermRatingFromStageAllocationScenarioBased |-> alias_variants("longTermRatingFromStageAllocationScenarioBased", << "long_term_rating_stage_allocation_scenario", "long_term_rating_scenario" >>),
    ifrsEADAmount |-> alias_variants("ifrsEADAmount", << "ifrs_ead_amount" >>),
    lossRateDelta |-> alias_variants("lossRateDelta", << "loss_rate_delta" >>),
    lossAllowanceDelta |-> alias_variants("lossAllowanceDelta", << "loss_allowance_delta" >>),
    ifrsLossRateUnadjusted |-> alias_variants("ifrsLossRateUnadjusted", << "ifrs_loss_rate_unadjusted" >>),
    lossAllowanceDeltaInInstrumentCurrency |-> alias_variants("lossAllowanceDeltaInInstrumentCurrency", << "loss_allowance_delta_in_instrument_currency" >>) ]

INSTRUMENT_CASHFLOW_ALIASES ==
  [ instrumentIdentifier |-> alias_variants("instrumentIdentifier", << "instrument_id" >>),
    portfolioIdentifier |-> alias_variants("portfolioIdentifier", << "portfolio_id" >>),
    cashFlowDate |-> alias_variants("cashFlowDate", << "cash_flow_date" >>),
    reportingDate |-> alias_variants("reportingDate", << "reporting_date" >>),
    asOfDate |-> alias_variants("asOfDate", << "as_of_date" >>),
    beginningUnpaidPrincipalBalance |-> alias_variants("beginningUnpaidPrincipalBalance", << "beginning_principal_balance" >>),
    grossCarryingAmount |-> alias_variants("grossCarryingAmount", << "gross_carrying_amount" >>),
    principalPayment |-> alias_variants("principalPayment", << "principal_payment" >>),
    interestPayment |-> alias_variants("interestPayment", << "interest_payment" >>),
    prepaymentAmount |-> alias_variants("prepaymentAmount", << "prepayment_amount" >>),
    defaultAmount |-> alias_variants("defaultAmount", << "default_amount" >>),
    principalRecoveryAmount |-> alias_variants("principalRecoveryAmount", << "principal_recovery_amount" >>),
    eadAmount |-> alias_variants("eadAmount", << "ead_amount" >>),
    forwardPD |-> alias_variants("forwardPD", << "forward_pd" >>),
    cumulativePD |-> alias_variants("cumulativePD", << "cumulative_pd" >>),
    lgd |-> alias_variants("lgd", << >>),
    discountFactorForAllowance |-> alias_variants("discountFactorForAllowance", << "discount_factor_allowance" >>),
    discountFactorForFairValue |-> alias_variants("discountFactorForFairValue", << "discount_factor_fair_value" >>) ]

CHARGEOFF_ALIASES ==
  [ instrumentIdentifier |-> alias_variants("instrumentIdentifier", << "instrument_id" >>),
    chargeOffDate |-> alias_variants("chargeOffDate", << "charge_off_date", "chargeoff_date", "reportingDate", "asOfDate" >>),
    reportingDate |-> alias_variants("reportingDate", << "reporting_date" >>),
    asOfDate |-> alias_variants("asOfDate", << "as_of_date" >>),
    netChargeOffAmount |-> alias_variants("netChargeOffAmount", << "net_charge_off_amount" >>),
    chargeOffAmount |-> alias_variants("chargeOffAmount", << "charge_off_amount" >>) ]

INSTRUMENT_REFERENCE_SPEC ==
  [ key               |-> "instrument_reference",
    display_name      |-> "Instrument Reference",
    filename_prefixes |-> << "instrumentreference", "reference" >>,
    required_fields   |-> << "instrumentIdentifier", "portfolioIdentifier" >>,
    field_aliases     |-> INSTRUMENT_REFERENCE_ALIASES,
    identifying_fields |->
      << "reportingDate",
         "asOfDate",
         "borrowerZipCode",
         "collateralZipCode",
         "borrowerState",
         "collateralState",
         "geographyCode",
         "occupancyStatus",
         "propertyStatus",
         "loanPropertyGroupIdentifier",
         "assetClass" >> ]

INSTRUMENT_RISK_METRIC_SPEC ==
  [ key               |-> "instrument_risk_metric",
    display_name      |-> "Instrument Risk Metric",
    filename_prefixes |-> << "instrumentriskmetric", "riskmetric", "risk_metrics" >>,
    required_fields   |-> << "instrumentIdentifier", "reportingDate" >>,
    field_aliases     |-> INSTRUMENT_RISK_METRIC_ALIASES,
    identifying_fields |->
      << "annualizedCumulativePD",
         "forwardPD",
         "cumulativePD",
         "marginalPD",
         "maturityRiskPD",
         "lgd",
         "ead" >> ]

INSTRUMENT_RESULT_SPEC ==
  [ key               |-> "instrument_result",
    display_name      |-> "Instrument Result",
    filename_prefixes |-> << "instrumentresult", "result" >>,
    required_fields   |-> << "instrumentIdentifier", "portfolioIdentifier" >>,
    field_aliases     |-> INSTRUMENT_RESULT_ALIASES,
    identifying_fields |->
      << "reportingDate",
         "asOfDate",
         "riskClassification",
         "longTermRatingFromStageAllocation",
         "longTermRatingFromStageAllocationScenarioBased",
         "ifrsEADAmount",
         "lossAllowanceDelta" >> ]

INSTRUMENT_CASHFLOW_SPEC ==
  [ key               |-> "instrument_cashflow",
    display_name      |-> "Instrument Cash Flow",
    filename_prefixes |-> << "instrumentcashflow", "cashflow", "cash_flow" >>,
    required_fields   |-> << "instrumentIdentifier", "portfolioIdentifier", "cashFlowDate" >>,
    field_aliases     |-> INSTRUMENT_CASHFLOW_ALIASES,
    identifying_fields |->
      << "reportingDate",
         "asOfDate",
         "beginningUnpaidPrincipalBalance",
         "grossCarryingAmount",
         "principalPayment",
         "interestPayment",
         "prepaymentAmount",
         "defaultAmount",
         "principalRecoveryAmount",
         "eadAmount",
         "forwardPD",
         "cumulativePD",
         "lgd" >> ]

CHARGEOFF_SPEC ==
  [ key               |-> "chargeoff",
    display_name      |-> "Charge-off",
    filename_prefixes |-> << "chargeoff", "charge_off", "default" >>,
    required_fields   |-> << "instrumentIdentifier" >>,
    field_aliases     |-> CHARGEOFF_ALIASES,
    identifying_fields |->
      << "chargeOffDate",
         "netChargeOffAmount",
         "chargeOffAmount" >> ]

\* The module-level dict DATASET_SPECS is built once, at import, and is part
\* of the program's state from then on; token_memo tabulates _normalize_token
\* over the aliases of that dict (a pure function of an immutable table).
VARIABLES DATASET_SPECS, token_memo

\* the dict comprehension of schemas.py: DATASET_SPECS.values(), in order
SHIPPED_SPECS ==
  << INSTRUMENT_REFERENCE_SPEC, INSTRUMENT_RISK_METRIC_SPEC,
     INSTRUMENT_RESULT_SPEC, INSTRUMENT_CASHFLOW_SPEC, CHARGEOFF_SPEC >>

\* DATASET_SPECS[key]
SpecByKey(key) ==
  LET i == CHOOSE k \in 1..Len(DATASET_SPECS) : DATASET_SPECS[k].key = key
  IN  DATASET_SPECS[i]

DatasetKeys == { DATASET_SPECS[i].key : i \in 1..Len(DATASET_SPECS) }

\* DatasetSpec.alias_for
alias_for(spec, field) ==
  IF field \in DOMAIN spec.field_aliases THEN spec.field_aliases[field]
  ELSE << field >>

----------------------------------------------------------------------------
(* io/loader.py: header normalisation and alias matching.                  *)
(* Optional[str] is a sequence of length 0 (None) or 1.                    *)

None == << >>
Some(v) == << v >>

\* _NORMALIZE_PATTERN.sub("", value.lower()), pattern [^a-z0-9]
RECURSIVE strip_non_alnum(_)
strip_non_alnum(s) ==
  IF Len(s) = 0 THEN ""
  ELSE (IF CharAt(s, 1) \in LowerChars \cup DigitChars THEN CharAt(s, 1) ELSE "")
         \o strip_non_alnum(SubSeq(s, 2, Len(s)))

_normalize_token(value) == strip_non_alnum(lower(value))

\* fault seeded for normalize_headers: the header is put in front of its
\* token's list
dict_prepend(normalized, token, trimmed) ==
  [t \in DOMAIN normalized \cup {token} |->
     IF t = token
     THEN << trimmed >> \o
          (IF token \in DOMAIN normalized THEN normalized[token] ELSE << >>)
     ELSE normalized[t]]

\* normalized[token].append(trimmed) on a defaultdict(list)
dict_append(normalized, token, trimmed) ==
  [t \in DOMAIN normalized \cup {token} |->
     IF t = token
     THEN Append(IF token \in DOMAIN normalized THEN normalized[token] ELSE << >>,
                 trimmed)
     ELSE normalized[t]]

EmptyDict == [t \in {} |-> << >>]

\* a list of str none of which is None, as a list of Optional[str]
present(strings) == [i \in DOMAIN strings |-> Some(strings[i])]

\* the loop of normalize_headers over the remaining columns, each of them a
\* str or None
RECURSIVE normalize_loop(_, _)
normalize_loop(columns, normalized) ==
  IF Len(columns) = 0 THEN normalized
  ELSE LET column == Head(columns)
       IN  IF column = None
           THEN normalize_loop(Tail(columns), normalized)
           ELSE LET trimmed == strip(column[1])
                IN  IF Len(trimmed) = 0
                    THEN normalize_loop(Tail(columns), normalized)
                    ELSE normalize_loop(Tail(columns),
                                        dict_append(normalized,
                                                    _normalize_token(trimmed),
                                                    trimmed))

normalize_headers(columns) == normalize_loop(columns, EmptyDict)

\* every alias string of a registry
AliasesOf(specs) ==
  UNION { UNION { { specs[i].field_aliases[f][k] :
                      k \in 1..Len(specs[i].field_aliases[f]) } :
                  f \in DOMAIN specs[i].field_aliases } :
          i \in 1..Len(specs) }

\* _normalize_token(alias), read from the table when the alias is in it
alias_token(alias) ==
  IF alias \in DOMAIN token_memo THEN token_memo[alias]
  ELSE _normalize_token(alias)

\* fault seeded for _match_alias: the alias that matched is returned, not
\* the header it matched
RECURSIVE _match_alias_returns_alias(_, _)
_match_alias_returns_alias(alias_list, header_map) ==
  IF Len(alias_list) = 0 THEN None
  ELSE LET token == alias_token(Head(alias_list))
       IN  IF token \in DOMAIN header_map
           THEN Some(Head(alias_list))
           ELSE _match_alias_returns_alias(Tail(alias_list), header_map)

\* first header matching any alias candidate, in alias order
RECURSIVE _match_alias(_, _)
_match_alias(alias_list, header_map) ==
  IF Len(alias_list) = 0 THEN None
  ELSE LET token == alias_token(Head(alias_list))
       IN  IF token \in DOMAIN header_map
           THEN Some(header_map[token][1])
           ELSE _match_alias(Tail(alias_list), header_map)

----------------------------------------------------------------------------
(* io/loader.py: _evaluate_dataset and detect_file_profile.                *)
(* A dict whose insertion order is read (missing_required) is a sequence   *)
(* of <<key, value>> pairs; the others are functions.                      *)

\* d[k] = v on a dict
dict_set(d, k, v) == [x \in DOMAIN d \cup {k} |-> IF x = k THEN v ELSE d[x]]

\* d[k] = v on an insertion-ordered dict
RECURSIVE odict_set(_, _, _)
odict_set(d, k, v) ==
  IF Len(d) = 0 THEN << <<k, v>> >>
  ELSE IF Head(d)[1] = k THEN << <<k, v>> >> \o Tail(d)
  ELSE << Head(d) >> \o odict_set(Tail(d), k, v)

\* the loop over spec.required_fields: <<matched_required, missing_required>>
RECURSIVE required_loop(_, _, _, _, _)
required_loop(spec, fields, header_map, matched, missing) ==
  IF Len(fields) = 0 THEN << matched, missing >>
  ELSE LET field == Head(fields)
           match == _match_alias(alias_for(spec, field), header_map)
       IN  IF match # None
           THEN required_loop(spec, Tail(fields), header_map,
                              dict_set(matched, field, match[1]), missing)
           ELSE required_loop(spec, Tail(fields), header_map, matched,
                              odict_set(missing, field, alias_for(spec, field)))

\* the loop over spec.identifying_fields: matched_optional
RECURSIVE identifying_loop(_, _, _, _)
identifying_loop(spec, fields, header_map, matched) ==
  IF Len(fields) = 0 THEN matched
  ELSE LET field == Head(fields)
           match == _match_alias(alias_for(spec, field), header_map)
       IN  identifying_loop(spec, Tail(fields), header_map,
                            IF match # None THEN dict_set(matched, field, match[1])
                            ELSE matched)

\* fault seeded for the tier rule: both tiers awarded together
filename_bonus_both_tiers(spec, file_name) ==
  LET lowercase_name == lower(file_name)
      prefixes == spec.filename_prefixes
  IN  (IF \E i \in 1..Len(prefixes) : startswith(lowercase_name, prefixes[i])
       THEN 2 ELSE 0)
      + (IF \E i \in 1..Len(prefixes) : contains(lowercase_name, prefixes[i])
         THEN 1 ELSE 0)

\* fault seeded for the end-to-end scenario: the file name is ignored
filename_bonus_ignored(spec, file_name) == 0

filename_bonus(spec, file_name) ==
  LET lowercase_name == lower(file_name)
      prefixes == spec.filename_prefixes
  IN  IF \E i \in 1..Len(prefixes) : startswith(lowercase_name, prefixes[i]) THEN 2
      ELSE IF \E i \in 1..Len(prefixes) : contains(lowercase_name, prefixes[i]) THEN 1
      ELSE 0

\* fault seeded for the score formula: a required match weighs 4
score_required_weight4(matched_required) ==
  Cardinality(DOMAIN matched_required) * 4

\* len(matched_required) * 5
score_required_of(matched_required) ==
  Cardinality(DOMAIN matched_required) * 5

\* len(matched_optional)
score_optional_of(matched_optional) == Cardinality(DOMAIN matched_optional)

\* the evaluation dict; "spec" holds the spec's key, which identifies it
_evaluate_dataset(spec, file_name, header_map) ==
  LET req == required_loop(spec, spec.required_fields, header_map, EmptyDict, << >>)
      matched_required == req[1]
      missing_required == req[2]
      matched_optional ==
        identifying_loop(spec, spec.identifying_fields, header_map, EmptyDict)
      bonus == filename_bonus(spec, file_name)
      score_required == score_required_of(matched_required)
      score_optional == score_optional_of(matched_optional)
  IN  [ spec             |-> spec.key,
        matched_required |-> matched_required,
        matched_optional |-> matched_optional,
        missing_required |-> missing_required,
        score_required   |-> score_required,
        score_optional   |-> score_optional,
        filename_bonus   |-> bonus,
        total_score      |-> score_required + score_optional + bonus ]

\* evaluations = [_evaluate_dataset(spec, ...) for spec in DATASET_SPECS.values()]
evaluate_all(file_name, header_map) ==
  [i \in 1..Len(DATASET_SPECS) |->
     _evaluate_dataset(DATASET_SPECS[i], file_name, header_map)]

\* fault seeded for viability: one matched required field is enough
is_viable_any_required(evaluation) ==
  Cardinality(DOMAIN evaluation.matched_required) >= 1

\* the list comprehension that keeps the evaluations with every required field
is_viable(evaluation) ==
  Cardinality(DOMAIN evaluation.matched_required)
    = Len(SpecByKey(evaluation.spec).required_fields)

viable_of(evaluations) == SelectSeq(evaluations, is_viable)

\* fault seeded for the best guess: the first evaluation, whatever its score
max_by_total_first(evaluations, best) == best

\* fault seeded for the best guess: the last maximal element
RECURSIVE max_by_total_last(_, _)
max_by_total_last(evaluations, best) ==
  IF Len(evaluations) = 0 THEN best
  ELSE max_by_total_last(Tail(evaluations),
                         IF Head(evaluations).total_score >= best.total_score
                         THEN Head(evaluations) ELSE best)

\* max(evaluations, key=total_score): the first maximal element
RECURSIVE max_by_total(_, _)
max_by_total(evaluations, best) ==
  IF Len(evaluations) = 0 THEN best
  ELSE max_by_total(Tail(evaluations),
                    IF Head(evaluations).total_score > best.total_score
                    THEN Head(evaluations) ELSE best)

\* fault seeded for the tie-break: score_optional compared before
\* score_required
key_greater_optional_first(a, b) ==
  \/ a.total_score > b.total_score
  \/ /\ a.total_score = b.total_score
     /\ \/ a.score_optional > b.score_optional
        \/ /\ a.score_optional = b.score_optional
           /\ a.score_required > b.score_required

\* the sort key (total_score, score_required, score_optional), a > b
key_greater(a, b) ==
  \/ a.total_score > b.total_score
  \/ /\ a.total_score = b.total_score
     /\ \/ a.score_required > b.score_required
        \/ /\ a.score_required = b.score_required
           /\ a.score_optional > b.score_optional

\* fault seeded for the sort: an item is put before the items of equal key
RECURSIVE insert_desc_before_equal(_, _)
insert_desc_before_equal(sorted, item) ==
  IF Len(sorted) = 0 THEN << item >>
  ELSE IF ~key_greater(Head(sorted), item) THEN << item >> \o sorted
  ELSE << Head(sorted) >> \o insert_desc_before_equal(Tail(sorted), item)

\* list.sort(key=..., reverse=True): stable, descending
RECURSIVE insert_desc(_, _)
insert_desc(sorted, item) ==
  IF Len(sorted) = 0 THEN << item >>
  ELSE IF key_greater(item, Head(sorted)) THEN << item >> \o sorted
  ELSE << Head(sorted) >> \o insert_desc(Tail(sorted), item)

RECURSIVE sort_desc(_, _)
sort_desc(items, sorted) ==
  IF Len(items) = 0 THEN sorted
  ELSE sort_desc(Tail(items), insert_desc(sorted, Head(items)))

\* ", ".join(f"{field} (candidates: {', '.join(aliases)})" for ...) or "required headers"
missing_parts_of(missing_required) ==
  LET parts == [i \in 1..Len(missing_required) |->
                  missing_required[i][1] \o " (candidates: "
                    \o join(", ", missing_required[i][2]) \o ")"]
      joined == join(", ", parts)
  IN  IF Len(joined) = 0 THEN "required headers" ELSE joined

error_message(file_name, best_guess) ==
  "File '" \o file_name \o "' resembles '"
    \o SpecByKey(best_guess.spec).display_name
    \o "' but is missing required headers: "
    \o missing_parts_of(best_guess.missing_required) \o "."

\* the result of detect_file_profile from the evaluations: a raised
\* ValueError, or (dataset_key, diagnostics)
detect_result(file_name, sample_headers, evaluations) ==
  LET viable == viable_of(evaluations)
  IN  IF Len(viable) = 0
      THEN [ kind    |-> "error",
             message |-> error_message(file_name,
                           max_by_total(Tail(evaluations), Head(evaluations))) ]
      ELSE LET best == sort_desc(viable, << >>)[1]
           IN  [ kind        |-> "ok",
                 dataset_key |-> best.spec,
                 diagnostics |->
                   [ dataset_key      |-> best.spec,
                     display_name     |-> SpecByKey(best.spec).display_name,
                     matched_required |-> best.matched_required,
                     matched_optional |-> best.matched_optional,
                     filename_bonus   |-> best.filename_bonus,
                     score            |-> best.total_score,
                     header_sample    |->
                       SubSeq(sample_headers, 1,
                              IF Len(sample_headers) < 10 THEN Len(sample_headers)
                              ELSE 10) ] ]

detect_evaluations(file_name, sample_headers) ==
  evaluate_all(file_name, normalize_headers(present(sample_headers)))

detect_file_profile(file_name, sample_headers) ==
  detect_result(file_name, sample_headers,
                detect_evaluations(file_name, sample_headers))

----------------------------------------------------------------------------
(* io/loader.py: load_uploaded_files; app.py: _handle_file_uploads.        *)
(* The bytes of an upload are a record: bytes says how pandas fares on     *)
(* them ("empty": b""; "garbled": the header read raises; "ragged": the    *)
(* header read succeeds and the full read raises; "csv": both succeed),    *)
(* headers is the header row pandas reads. The files dict is a sequence of *)
(* [name, content] records in insertion order, the names distinct.         *)

\* [col.strip() ... for col in df.columns]
stripped_columns(headers) == [i \in 1..Len(headers) |-> strip(headers[i])]

\* fault seeded for the grouping: the record replaces the list of its key
setdefault_replace(loaded, dataset_key, record) ==
  [k \in DOMAIN loaded \cup {dataset_key} |->
     IF k = dataset_key THEN << record >> ELSE loaded[k]]

\* loaded.setdefault(dataset_key, []).append(record)
setdefault_append(loaded, dataset_key, record) ==
  [k \in DOMAIN loaded \cup {dataset_key} |->
     IF k = dataset_key
     THEN Append(IF dataset_key \in DOMAIN loaded THEN loaded[dataset_key] ELSE << >>,
                 record)
     ELSE loaded[k]]

\* LoadedFile(...); the dataframe is kept as its columns
LoadedFile(dataset_key, fname, diagnostics, headers) ==
  [ dataset_key |-> dataset_key,
    file_name   |-> fname,
    diagnostics |-> diagnostics,
    columns     |-> stripped_columns(headers) ]

\* the for loop of load_uploaded_files over the remaining files: it ends by
\* returning loaded, or at the first raise. The text pandas appends to the
\* two "Unable to ..." messages is left out.
RECURSIVE load_loop(_, _)
load_loop(files, loaded) ==
  IF Len(files) = 0 THEN [ kind |-> "returned", loaded |-> loaded ]
  ELSE LET fname   == Head(files).name
           content == Head(files).content
       IN  IF content.bytes = "empty"
           THEN load_loop(Tail(files), loaded)
           ELSE IF content.bytes = "garbled"
           THEN [ kind    |-> "raised",
                  message |-> "Unable to read CSV headers for file '" \o fname \o "'" ]
           ELSE LET detected == detect_file_profile(fname, content.headers)
                IN  IF detected.kind = "error"
                    THEN [ kind |-> "raised", message |-> detected.message ]
                    ELSE IF content.bytes = "ragged"
                    THEN [ kind    |-> "raised",
                           message |-> "Unable to load CSV for file '" \o fname \o "'" ]
                    ELSE load_loop(
                           Tail(files),
                           setdefault_append(
                             loaded, detected.dataset_key,
                             LoadedFile(detected.dataset_key, fname,
                                        detected.diagnostics, content.headers)))

load_uploaded_files(files) == load_loop(files, EmptyDict)

\* _handle_file_uploads: what it returns and the error it shows, from the
\* uploader's files
_handle_file_uploads(files) ==
  IF Len(files) = 0
  THEN [ returned |-> EmptyDict, error |-> None ]
  ELSE LET loaded == load_uploaded_files(files)
       IN  IF loaded.kind = "raised"
           THEN [ returned |-> EmptyDict, error |-> Some(loaded.message) ]
           ELSE [ returned |-> loaded.loaded, error |-> None ]

----------------------------------------------------------------------------
(* components/inputs.py: _match_columns.                                   *)

\* inputs.py imports normalize_token from wow_risk_dashboard.io, which
\* defines no such name; it is taken to be the token function of the header
\* normaliser (lowercase, then drop every character outside [a-z0-9]).
normalize_token(value) == alias_token(value)

\* fault seeded for find_column: of the headers that collide on the token,
\* the last one is returned
RECURSIVE find_in_aliases_last_header(_, _)
find_in_aliases_last_header(aliases, header_map) ==
  IF Len(aliases) = 0 THEN None
  ELSE LET token == normalize_token(Head(aliases))
       IN  IF token \in DOMAIN header_map
           THEN Some(header_map[token][Len(header_map[token])])
           ELSE find_in_aliases_last_header(Tail(aliases), header_map)

\* find_column, the closure of _match_columns over spec and header_map
RECURSIVE find_in_aliases(_, _)
find_in_aliases(aliases, header_map) ==
  IF Len(aliases) = 0 THEN None
  ELSE LET token == normalize_token(Head(aliases))
       IN  IF token \in DOMAIN header_map
           THEN Some(header_map[token][1])
           ELSE find_in_aliases(Tail(aliases), header_map)

find_column(spec, header_map, canonical) ==
  find_in_aliases(alias_for(spec, canonical), header_map)

\* fault seeded for the "all" branch: a missing candidate is put in front
RECURSIVE all_loop_missing_prepended(_, _, _, _, _)
all_loop_missing_prepended(spec, header_map, candidates, selected, missing) ==
  IF Len(candidates) = 0 THEN << selected, missing >>
  ELSE LET canonical == Head(candidates)
           column    == find_column(spec, header_map, canonical)
       IN  IF column # None
           THEN all_loop_missing_prepended(spec, header_map, Tail(candidates),
                                           dict_set(selected, canonical, column[1]),
                                           missing)
           ELSE all_loop_missing_prepended(spec, header_map, Tail(candidates),
                                           selected, << canonical >> \o missing)

\* the loop of the "all" branch over the remaining candidates
RECURSIVE all_loop(_, _, _, _, _)
all_loop(spec, header_map, candidates, selected, missing) ==
  IF Len(candidates) = 0 THEN << selected, missing >>
  ELSE LET canonical == Head(candidates)
           column    == find_column(spec, header_map, canonical)
       IN  IF column # None
           THEN all_loop(spec, header_map, Tail(candidates),
                         dict_set(selected, canonical, column[1]), missing)
           ELSE all_loop(spec, header_map, Tail(candidates),
                         selected, Append(missing, canonical))

\* fault seeded for the "any" branch: the loop goes on after a match
RECURSIVE any_loop_no_break(_, _, _, _)
any_loop_no_break(spec, header_map, candidates, selected) ==
  IF Len(candidates) = 0 THEN selected
  ELSE LET canonical == Head(candidates)
           column    == find_column(spec, header_map, canonical)
       IN  any_loop_no_break(spec, header_map, Tail(candidates),
                             IF column # None
                             THEN dict_set(selected, canonical, column[1])
                             ELSE selected)

\* the loop of the "any" branch over the remaining candidates: selected,
\* with one entry after a break and none when the loop runs to its else
RECURSIVE any_loop(_, _, _, _)
any_loop(spec, header_map, candidates, selected) ==
  IF Len(candidates) = 0 THEN selected
  ELSE LET canonical == Head(candidates)
           column    == find_column(spec, header_map, canonical)
       IN  IF column # None
           THEN dict_set(selected, canonical, column[1])
           ELSE any_loop(spec, header_map, Tail(candidates), selected)

\* fault seeded for the "any" branch: the missing entry is added whether or
\* not the expectation is required
_match_columns_required_ignored(spec, columns, expectation) ==
  LET header_map == normalize_headers(present(columns))
  IN  IF expectation.match = "all"
      THEN all_loop(spec, header_map, expectation.candidates, EmptyDict, << >>)
      ELSE LET selected ==
                 any_loop(spec, header_map, expectation.candidates, EmptyDict)
           IN  << selected,
                  IF DOMAIN selected = {}
                  THEN << join(" / ", expectation.candidates) >>
                  ELSE << >> >>

\* fault seeded for the match mode: only "any" takes the first-match-wins
\* branch, every other value is handled as "all"
_match_columns_any_only(spec, columns, expectation) ==
  LET header_map == normalize_headers(present(columns))
  IN  IF expectation.match # "any"
      THEN all_loop(spec, header_map, expectation.candidates, EmptyDict, << >>)
      ELSE LET selected ==
                 any_loop(spec, header_map, expectation.candidates, EmptyDict)
           IN  << selected,
                  IF DOMAIN selected = {} /\ expectation.required
                  THEN << join(" / ", expectation.candidates) >>
                  ELSE << >> >>

\* _match_columns: << selected, missing >>
_match_columns(spec, columns, expectation) ==
  LET header_map == normalize_headers(present(columns))
  IN  IF expectation.match = "all"
      THEN all_loop(spec, header_map, expectation.candidates, EmptyDict, << >>)
      ELSE LET selected ==
                 any_loop(spec, header_map, expectation.candidates, EmptyDict)
           IN  << selected,
                  IF DOMAIN selected = {} /\ expectation.required
                  THEN << join(" / ", expectation.candidates) >>
                  ELSE << >> >>

----------------------------------------------------------------------------
(* components/inputs.py: InputStatus, InputPanelState, render_inputs_panel.*)
(* An upload of a slot is None or Some([name, content]). The statuses dict *)
(* is the sequence of the statuses in the order of the configs, whose keys *)
(* are distinct. row_count is left out: it is read from the cached copy of *)
(* a file pandas has just loaded and does not enter any decision.          *)

\* d.update(e)
dict_update(d, e) ==
  [k \in DOMAIN d \cup DOMAIN e |-> IF k \in DOMAIN e THEN e[k] ELSE d[k]]

\* f"{expectation.name}: {item}" for item in missing
labelled(expectation, missing) ==
  [i \in 1..Len(missing) |-> expectation.name \o ": " \o missing[i]]

\* the keys of the loaded dict in insertion order; load_uploaded_files is
\* called with one file, so the dict has at most one key
loaded_keys(loaded) ==
  IF DOMAIN loaded = {} THEN << >>
  ELSE << CHOOSE k \in DOMAIN loaded : TRUE >>

\* InputStatus(config=config)
InputStatus(config) ==
  [ config            |-> config,
    uploaded_file     |-> None,
    file_path         |-> None,
    available_columns |-> << >>,
    encoding          |-> None,
    errors            |-> << >>,
    missing_headers   |-> << >>,
    selected_columns  |-> EmptyDict ]

\* InputStatus.is_loaded
is_loaded(status) == status.file_path # None /\ Len(status.errors) = 0

\* InputStatus.is_ready
is_ready(status) == is_loaded(status) /\ Len(status.missing_headers) = 0

\* fault seeded for the expectation loop: missing entries of optional
\* expectations are reported too
RECURSIVE expectations_loop_optional_reported(_, _, _, _)
expectations_loop_optional_reported(spec, expectations, available_columns, status) ==
  IF Len(expectations) = 0 THEN status
  ELSE LET expectation == Head(expectations)
           result      == _match_columns(spec, available_columns, expectation)
       IN  expectations_loop_optional_reported(
             spec, Tail(expectations), available_columns,
             [ status EXCEPT
                 !.selected_columns = dict_update(@, result[1]),
                 !.missing_headers = @ \o labelled(expectation, result[2]) ])

\* the loop over config.expectations
RECURSIVE expectations_loop(_, _, _, _)
expectations_loop(spec, expectations, available_columns, status) ==
  IF Len(expectations) = 0 THEN status
  ELSE LET expectation == Head(expectations)
           result      == _match_columns(spec, available_columns, expectation)
       IN  expectations_loop(
             spec, Tail(expectations), available_columns,
             [ status EXCEPT
                 !.selected_columns = dict_update(@, result[1]),
                 !.missing_headers =
                   IF Len(result[2]) > 0 /\ expectation.required
                   THEN @ \o labelled(expectation, result[2])
                   ELSE @ ])

\* the cached path of an upload; the content digest is left out
cached_path(page_key, config, fname) ==
  "processed/uploaded_csvs/" \o page_key \o "_" \o config.key \o "_" \o fname

\* fault seeded for the slot: the expectations are evaluated on the file
\* whatever dataset type it was detected as
render_slot_any_type_evaluated(page_key, config, uploaded) ==
  LET spec   == SpecByKey(config.dataset_key)
      status == InputStatus(config)
  IN  IF uploaded = None THEN status
      ELSE LET fname   == uploaded[1].name
               result  == load_uploaded_files(<< uploaded[1] >>)
               started == [ status EXCEPT
                              !.uploaded_file = Some(fname),
                              !.file_path = Some(cached_path(page_key, config, fname)) ]
           IN  IF result.kind = "raised"
               THEN [ started EXCEPT !.errors = Append(@, result.message) ]
               ELSE IF config.dataset_key \notin DOMAIN result.loaded
               THEN LET joined   == join(", ", loaded_keys(result.loaded))
                        detected == IF Len(joined) = 0 THEN "none" ELSE joined
                        reported == [ started EXCEPT
                                        !.errors =
                                          Append(@, "Detected dataset type(s): " \o detected
                                                      \o ". Expected '" \o config.dataset_key
                                                      \o "'.") ]
                    IN  IF DOMAIN result.loaded = {} THEN reported
                        ELSE LET record ==
                                   result.loaded[CHOOSE k \in DOMAIN result.loaded : TRUE][1]
                             IN  expectations_loop(spec, config.expectations,
                                                   record.columns, reported)
               ELSE LET record == result.loaded[config.dataset_key][1]
                    IN  expectations_loop(
                          spec, config.expectations, record.columns,
                          [ started EXCEPT !.available_columns = record.columns ])

\* the body of the loop of render_inputs_panel for one config: its status
render_slot(page_key, config, uploaded) ==
  LET spec   == SpecByKey(config.dataset_key)
      status == InputStatus(config)
  IN  IF uploaded = None THEN status
      ELSE LET fname   == uploaded[1].name
               result  == load_uploaded_files(<< uploaded[1] >>)
               started == [ status EXCEPT
                              !.uploaded_file = Some(fname),
                              !.file_path = Some(cached_path(page_key, config, fname)) ]
           IN  IF result.kind = "raised"
               THEN [ started EXCEPT !.errors = Append(@, result.message) ]
               ELSE IF config.dataset_key \notin DOMAIN result.loaded
               THEN LET joined   == join(", ", loaded_keys(result.loaded))
                        detected == IF Len(joined) = 0 THEN "none" ELSE joined
                    IN  [ started EXCEPT
                            !.errors =
                              Append(@, "Detected dataset type(s): " \o detected
                                          \o ". Expected '" \o config.dataset_key
                                          \o "'.") ]
               ELSE LET record == result.loaded[config.dataset_key][1]
                    IN  expectations_loop(
                          spec, config.expectations, record.columns,
                          [ started EXCEPT !.available_columns = record.columns ])

\* statuses of render_inputs_panel, one per config
render_statuses(page_key, configs, uploaded) ==
  [i \in 1..Len(configs) |-> render_slot(page_key, configs[i], uploaded[i])]

\* InputPanelState.missing_required_files
missing_required_files(statuses) ==
  LET wanted == SelectSeq(statuses,
                          LAMBDA status : status.config.required /\ ~is_loaded(status))
  IN  [i \in 1..Len(wanted) |-> wanted[i].config.title]

\* fault seeded for the panel state: the missing headers of an optional
\* slot are listed too
missing_required_headers_any_slot(statuses) ==
  { statuses[i].config.title :
      i \in { k \in 1..Len(statuses) : Len(statuses[k].missing_headers) > 0 } }

\* InputPanelState.missing_required_headers: the titles that are its keys
missing_required_headers(statuses) ==
  { statuses[i].config.title :
      i \in { k \in 1..Len(statuses) :
                /\ statuses[k].config.required
                /\ Len(statuses[k].missing_headers) > 0 } }

\* fault seeded for the panel state: missing headers are not looked at
ready_files_only(statuses) == Len(missing_required_files(statuses)) = 0

\* InputPanelState.ready
ready(statuses) ==
  /\ Len(missing_required_files(statuses)) = 0
  /\ missing_required_headers(statuses) = {}

----------------------------------------------------------------------------
(* viz/pages: the input slots of the five pages. An en dash in a title is  *)
(* written as a hyphen.                                                    *)

\* viz/pages/real_estate_pd.py: INPUT_CONFIGS
REAL_ESTATE_PD_INPUT_CONFIGS ==
  << [ key |-> "reference_current", title |-> "Instrument Reference",
      dataset_key |-> "instrument_reference", required |-> TRUE,
      expectations |-> <<
        [ name |-> "Instrument identifier", candidates |-> << "instrumentIdentifier" >>,
          required |-> TRUE, match |-> "all" ],
        [ name |-> "Portfolio identifier", candidates |-> << "portfolioIdentifier" >>,
          required |-> FALSE, match |-> "all" ],
        [ name |-> "Snapshot date", candidates |-> << "reportingDate", "asOfDate" >>,
          required |-> FALSE, match |-> "any" ],
        [ name |-> "Geography", candidates |-> << "geographyCode", "borrowerZipCode", "collateralZipCode" >>,
          required |-> FALSE, match |-> "any" ],
        [ name |-> "State", candidates |-> << "borrowerState", "collateralState" >>,
          required |-> TRUE, match |-> "any" ],
        [ name |-> "Occupancy", candidates |-> << "occupancyStatus" >>,
          required |-> FALSE, match |-> "all" ],
        [ name |-> "Property grouping", candidates |-> << "propertyStatus", "loanPropertyGroupIdentifier", "assetClass" >>,
          required |-> FALSE, match |-> "any" ] >> ],
     [ key |-> "result_current", title |-> "Instrument Result",
      dataset_key |-> "instrument_result", required |-> TRUE,
      expectations |-> <<
        [ name |-> "Instrument identifier", candidates |-> << "instrumentIdentifier" >>,
          required |-> TRUE, match |-> "all" ],
        [ name |-> "Portfolio identifier", candidates |-> << "portfolioIdentifier" >>,
          required |-> FALSE, match |-> "all" ],
        [ name |-> "Snapshot date", candidates |-> << "reportingDate", "asOfDate" >>,
          required |-> FALSE, match |-> "any" ],
        [ name |-> "One-year PD", candidates |-> << "annualizedPDOneYear" >>,
          required |-> TRUE, match |-> "all" ],
        [ name |-> "Lifetime LGD", candidates |-> << "lgdLifetime" >>,
          required |-> TRUE, match |-> "all" ],
        [ name |-> "Amortized cost", candidates |-> << "amortizedCost" >>,
          required |-> TRUE, match |-> "all" ] >> ] >>

\* viz/pages/rating_migration.py: INPUT_CONFIGS
RATING_MIGRATION_INPUT_CONFIGS ==
  << [ key |-> "result_q2_2023", title |-> "Instrument Result - Q2 2023",
      dataset_key |-> "instrument_result", required |-> TRUE,
      expectations |-> <<
        [ name |-> "Instrument identifiers", candidates |-> << "instrumentIdentifier", "portfolioIdentifier" >>,
          required |-> TRUE, match |-> "all" ],
        [ name |-> "Snapshot date", candidates |-> << "reportingDate", "asOfDate" >>,
          required |-> TRUE, match |-> "any" ],
        [ name |-> "Risk rating (priority)", candidates |-> << "riskClassification", "longTermRatingFromStageAllocation", "longTermRatingFromStageAllocationScenarioBased" >>,
          required |-> TRUE, match |-> "any" ] >> ],
     [ key |-> "result_q2_2025", title |-> "Instrument Result - Q2 2025",
      dataset_key |-> "instrument_result", required |-> TRUE,
      expectations |-> <<
        [ name |-> "Instrument identifiers", candidates |-> << "instrumentIdentifier", "portfolioIdentifier" >>,
          required |-> TRUE, match |-> "all" ],
        [ name |-> "Snapshot date", candidates |-> << "reportingDate", "asOfDate" >>,
          required |-> TRUE, match |-> "any" ],
        [ name |-> "Risk rating (priority)", candidates |-> << "riskClassification", "longTermRatingFromStageAllocation", "longTermRatingFromStageAllocationScenarioBased" >>,
          required |-> TRUE, match |-> "any" ] >> ],
     [ key |-> "risk_q2_2023", title |-> "Instrument Risk Metric - Q2 2023 (optional)",
      dataset_key |-> "instrument_risk_metric", required |-> FALSE,
      expectations |-> <<
        [ name |-> "Instrument identifiers", candidates |-> << "instrumentIdentifier" >>,
          required |-> FALSE, match |-> "all" ],
        [ name |-> "Snapshot date", candidates |-> << "reportingDate", "asOfDate" >>,
          required |-> FALSE, match |-> "any" ],
        [ name |-> "Probability of default", candidates |-> << "annualizedCumulativePD", "forwardPD", "cumulativePD", "marginalPD", "maturityRiskPD" >>,
          required |-> FALSE, match |-> "any" ] >> ],
     [ key |-> "risk_q2_2025", title |-> "Instrument Risk Metric - Q2 2025 (optional)",
      dataset_key |-> "instrument_risk_metric", required |-> FALSE,
      expectations |-> <<
        [ name |-> "Instrument identifiers", candidates |-> << "instrumentIdentifier" >>,
          required |-> FALSE, match |-> "all" ],
        [ name |-> "Snapshot date", candidates |-> << "reportingDate", "asOfDate" >>,
          required |-> FALSE, match |-> "any" ],
        [ name |-> "Probability of default", candidates |-> << "annualizedCumulativePD", "forwardPD", "cumulativePD", "marginalPD", "maturityRiskPD" >>,
          required |-> FALSE, match |-> "any" ] >> ] >>

\* viz/pages/backtest.py: INPUT_CONFIGS
BACKTEST_INPUT_CONFIGS ==
  << [ key |-> "risk_metric_snapshot", title |-> "Instrument Risk Metric - Q4 2023 Snapshot",
      dataset_key |-> "instrument_risk_metric", required |-> TRUE,
      expectations |-> <<
        [ name |-> "Instrument identifiers", candidates |-> << "instrumentIdentifier" >>,
          required |-> TRUE, match |-> "all" ],
        [ name |-> "Snapshot date", candidates |-> << "reportingDate", "asOfDate" >>,
          required |-> TRUE, match |-> "any" ],
        [ name |-> "Probability of default", candidates |-> << "annualizedCumulativePD", "forwardPD", "cumulativePD", "marginalPD", "maturityRiskPD" >>,
          required |-> TRUE, match |-> "any" ],
        [ name |-> "Loss given default", candidates |-> << "lgd" >>,
          required |-> FALSE, match |-> "all" ],
        [ name |-> "Exposure at default", candidates |-> << "ead" >>,
          required |-> FALSE, match |-> "all" ] >> ],
     [ key |-> "result_snapshot", title |-> "Instrument Result - Q4 2023 (optional)",
      dataset_key |-> "instrument_result", required |-> FALSE,
      expectations |-> <<
        [ name |-> "Instrument identifiers", candidates |-> << "instrumentIdentifier", "portfolioIdentifier" >>,
          required |-> FALSE, match |-> "all" ],
        [ name |-> "Snapshot date", candidates |-> << "reportingDate", "asOfDate" >>,
          required |-> FALSE, match |-> "any" ],
        [ name |-> "IFRS EAD Amount", candidates |-> << "ifrsEADAmount" >>,
          required |-> FALSE, match |-> "all" ] >> ],
     [ key |-> "cashflow_2024", title |-> "Instrument Cash Flow - 2024 (optional)",
      dataset_key |-> "instrument_cashflow", required |-> FALSE,
      expectations |-> <<
        [ name |-> "Instrument identifiers", candidates |-> << "instrumentIdentifier", "portfolioIdentifier" >>,
          required |-> FALSE, match |-> "all" ],
        [ name |-> "Cash flow date", candidates |-> << "cashFlowDate" >>,
          required |-> FALSE, match |-> "all" ],
        [ name |-> "Realized defaults", candidates |-> << "defaultAmount" >>,
          required |-> FALSE, match |-> "all" ],
        [ name |-> "Exposure on grid", candidates |-> << "eadAmount" >>,
          required |-> FALSE, match |-> "all" ],
        [ name |-> "Principal recoveries", candidates |-> << "principalRecoveryAmount" >>,
          required |-> FALSE, match |-> "all" ] >> ],
     [ key |-> "chargeoff_2024", title |-> "Charge-off Events - 2024 (preferred)",
      dataset_key |-> "chargeoff", required |-> FALSE,
      expectations |-> <<
        [ name |-> "Instrument identifiers", candidates |-> << "instrumentIdentifier" >>,
          required |-> FALSE, match |-> "all" ],
        [ name |-> "Charge-off date", candidates |-> << "chargeOffDate", "reportingDate", "asOfDate" >>,
          required |-> FALSE, match |-> "any" ],
        [ name |-> "Charge-off amount", candidates |-> << "netChargeOffAmount", "chargeOffAmount" >>,
          required |-> FALSE, match |-> "any" ] >> ] >>

\* viz/pages/macro_linkage.py: INPUT_CONFIGS
MACRO_LINKAGE_INPUT_CONFIGS ==
  << [ key |-> "risk_metrics_timeseries", title |-> "Instrument Risk Metric (2023 through 2025)",
      dataset_key |-> "instrument_risk_metric", required |-> TRUE,
      expectations |-> <<
        [ name |-> "Instrument identifiers", candidates |-> << "instrumentIdentifier" >>,
          required |-> TRUE, match |-> "all" ],
        [ name |-> "Observation date", candidates |-> << "reportingDate", "asOfDate" >>,
          required |-> TRUE, match |-> "any" ],
        [ name |-> "Probability of default", candidates |-> << "annualizedCumulativePD", "forwardPD", "cumulativePD", "marginalPD", "maturityRiskPD" >>,
          required |-> TRUE, match |-> "any" ],
        [ name |-> "Loss given default", candidates |-> << "lgd" >>,
          required |-> FALSE, match |-> "all" ] >> ],
     [ key |-> "reference_enrichment", title |-> "Instrument Reference (Geography Enrichment)",
      dataset_key |-> "instrument_reference", required |-> TRUE,
      expectations |-> <<
        [ name |-> "Instrument identifiers", candidates |-> << "instrumentIdentifier", "portfolioIdentifier" >>,
          required |-> TRUE, match |-> "all" ],
        [ name |-> "Latest snapshot date", candidates |-> << "reportingDate", "asOfDate" >>,
          required |-> FALSE, match |-> "any" ],
        [ name |-> "Geography (CBSA/ZIP priority)", candidates |-> << "geographyCode", "borrowerZipCode", "collateralZipCode" >>,
          required |-> TRUE, match |-> "any" ],
        [ name |-> "State fallback", candidates |-> << "borrowerState", "collateralState" >>,
          required |-> TRUE, match |-> "any" ] >> ] >>

\* viz/pages/default_cohorts.py: INPUT_CONFIGS
DEFAULT_COHORTS_INPUT_CONFIGS ==
  << [ key |-> "chargeoff_events", title |-> "Charge-off Events (preferred)",
      dataset_key |-> "chargeoff", required |-> FALSE,
      expectations |-> <<
        [ name |-> "Instrument identifiers", candidates |-> << "instrumentIdentifier" >>,
          required |-> FALSE, match |-> "all" ],
        [ name |-> "Charge-off date", candidates |-> << "chargeOffDate", "reportingDate", "asOfDate" >>,
          required |-> FALSE, match |-> "any" ],
        [ name |-> "Charge-off amount", candidates |-> << "netChargeOffAmount", "chargeOffAmount" >>,
          required |-> FALSE, match |-> "any" ] >> ],
     [ key |-> "cashflow_events", title |-> "Instrument Cash Flow (default inference)",
      dataset_key |-> "instrument_cashflow", required |-> FALSE,
      expectations |-> <<
        [ name |-> "Instrument identifiers", candidates |-> << "instrumentIdentifier" >>,
          required |-> FALSE, match |-> "all" ],
        [ name |-> "Cash flow date", candidates |-> << "cashFlowDate" >>,
          required |-> FALSE, match |-> "all" ],
        [ name |-> "Default amount", candidates |-> << "defaultAmount" >>,
          required |-> FALSE, match |-> "all" ],
        [ name |-> "Principal recovery", candidates |-> << "principalRecoveryAmount" >>,
          required |-> FALSE, match |-> "all" ] >> ],
     [ key |-> "risk_metrics_history", title |-> "Instrument Risk Metric History",
      dataset_key |-> "instrument_risk_metric", required |-> TRUE,
      expectations |-> <<
        [ name |-> "Instrument identifiers", candidates |-> << "instrumentIdentifier" >>,
          required |-> TRUE, match |-> "all" ],
        [ name |-> "Observation date", candidates |-> << "reportingDate", "asOfDate" >>,
          required |-> TRUE, match |-> "any" ],
        [ name |-> "Probability of default", candidates |-> << "annualizedCumulativePD", "forwardPD", "cumulativePD", "marginalPD", "maturityRiskPD" >>,
          required |-> TRUE, match |-> "any" ],
        [ name |-> "Loss given default", candidates |-> << "lgd" >>,
          required |-> FALSE, match |-> "all" ] >> ] >>

\* the calls render_inputs_panel(PAGE_KEY, INPUT_CONFIGS) of the pages
PAGES ==
  << [ page_key |-> "real_estate_pd",   configs |-> REAL_ESTATE_PD_INPUT_CONFIGS ],
     [ page_key |-> "rating_migration", configs |-> RATING_MIGRATION_INPUT_CONFIGS ],
     [ page_key |-> "backtest",         configs |-> BACKTEST_INPUT_CONFIGS ],
     [ page_key |-> "macro_linkage",    configs |-> MACRO_LINKAGE_INPUT_CONFIGS ],
     [ page_key |-> "default_cohorts",  configs |-> DEFAULT_COHORTS_INPUT_CONFIGS ] >>

----------------------------------------------------------------------------
(* Inputs explored by the model.                                           *)

\* longest header row drawn for detection
MaxHeaders == 5

\* raw headers a file may carry, in file order
HeaderUniverse ==
  << "Instrument ID", "Portfolio_Id", "Reporting Date", "Forward PD",
     "Loan Number", "Balance", "Charge Off Date", "netChargeOffAmount",
     "chargeOffAmount", " instrument_identifier ", "INSTRUMENT-ID",
     "cashFlowDate" >>

FileNames ==
  { "riskmetric_q1.csv", "instrumentreference_2024.csv",
    "q1_reference_data.csv", "unrelated.csv", "ChargeOff_2024.csv" }

\* the headers of HeaderUniverse at the positions of idx, in file order
RECURSIVE PickHeaders(_, _)
PickHeaders(i, idx) ==
  IF i > Len(HeaderUniverse) THEN << >>
  ELSE (IF i \in idx THEN << HeaderUniverse[i] >> ELSE << >>)
         \o PickHeaders(i + 1, idx)

HeaderRows ==
  { PickHeaders(1, idx) :
      idx \in { s \in SUBSET (1..Len(HeaderUniverse)) : Cardinality(s) <= MaxHeaders } }

\* most files in one batch of uploads
MaxBatch == 3

BatchNames == { "riskmetric_q1.csv", "unrelated.csv", "ChargeOff_2024.csv" }

\* uploads a batch may hold
BatchContents ==
  { [ bytes |-> "empty",   headers |-> << >> ],
    [ bytes |-> "garbled", headers |-> << >> ],
    [ bytes |-> "ragged",
      headers |-> << "Instrument ID", "Reporting Date" >> ],
    [ bytes |-> "csv",
      headers |-> << "Instrument ID", "Portfolio_Id", "Reporting Date", "Forward PD" >> ],
    [ bytes |-> "csv", headers |-> << "Loan Number", "Balance" >> ],
    [ bytes |-> "csv",
      headers |-> << "Instrument ID", "Charge Off Date", "netChargeOffAmount" >> ] }

\* the sequences of at most n files with distinct names
RECURSIVE BatchesUpTo(_)
BatchesUpTo(n) ==
  IF n = 0 THEN { << >> }
  ELSE LET shorter == BatchesUpTo(n - 1)
       IN  shorter \cup
           { Append(b, [ name |-> nm, content |-> c ]) :
               b \in { x \in shorter : Len(x) = n - 1 },
               nm \in BatchNames, c \in BatchContents }

Batches ==
  { b \in BatchesUpTo(MaxBatch) :
      \A i, j \in 1..Len(b) : i # j => b[i].name # b[j].name }

\* most columns of a loaded file, and most candidates of an expectation,
\* drawn for column matching
MaxColumns == 3
MaxCandidates == 2

ColumnUniverse ==
  << "Instrument ID", " instrument_identifier ", "Reporting Date",
     "Forward PD", "Loan Number" >>

RECURSIVE PickColumns(_, _)
PickColumns(i, idx) ==
  IF i > Len(ColumnUniverse) THEN << >>
  ELSE (IF i \in idx THEN << ColumnUniverse[i] >> ELSE << >>)
         \o PickColumns(i + 1, idx)

ColumnRows ==
  { PickColumns(1, idx) :
      idx \in { s \in SUBSET (1..Len(ColumnUniverse)) : Cardinality(s) <= MaxColumns } }

\* canonical names an expectation may list; loanNumber is in no alias map
CandidateFields ==
  { "instrumentIdentifier", "reportingDate", "forwardPD", "loanNumber" }

\* the lists of at most n distinct candidates
RECURSIVE CandidateListsUpTo(_)
CandidateListsUpTo(n) ==
  IF n = 0 THEN { << >> }
  ELSE LET shorter == CandidateListsUpTo(n - 1)
       IN  shorter \cup
           { Append(l, c) : l \in { x \in shorter : Len(x) = n - 1 },
                            c \in CandidateFields }

CandidateLists ==
  { l \in CandidateListsUpTo(MaxCandidates) :
      /\ Len(l) >= 1
      /\ \A i, j \in 1..Len(l) : i # j => l[i] # l[j] }

\* HeaderExpectation(name, candidates, required, match)
Expectations ==
  { [ name |-> "expected", candidates |-> l, required |-> r, match |-> m ] :
      l \in CandidateLists, r \in BOOLEAN, m \in { "all", "any" } }

\* values of HeaderExpectation.match other than the two documented ones;
\* the field is a plain str, so any string can be given
OtherModes == { "first", "ALL" }

\* the expectations, with the documented and the other match values
ModeExpectations ==
  { [ e EXCEPT !.match = m ] :
      e \in Expectations, m \in { "all", "any" } \cup OtherModes }

\* most slots of a page holding an upload in one render
MaxUploads == 2

\* files a user may drop on a slot
PanelFiles ==
  { [ name |-> "instrumentreference_2024.csv",
      content |-> [ bytes |-> "csv",
                    headers |-> << "Instrument ID", "Portfolio_Id",
                                   "Borrower State", "geographyCode" >> ] ],
    [ name |-> "reference_partial.csv",
      content |-> [ bytes |-> "csv",
                    headers |-> << "Instrument ID", "Portfolio_Id" >> ] ],
    [ name |-> "instrumentresult_q2.csv",
      content |-> [ bytes |-> "csv",
                    headers |-> << "Instrument ID", "Portfolio_Id",
                                   "Reporting Date", "riskClassification" >> ] ],
    [ name |-> "result_pd.csv",
      content |-> [ bytes |-> "csv",
                    headers |-> << "Instrument ID", "Portfolio_Id",
                                   "annualizedPDOneYear", "lgdLifetime",
                                   "amortizedCost" >> ] ],
    [ name |-> "riskmetric_q1.csv",
      content |-> [ bytes |-> "csv",
                    headers |-> << "Instrument ID", "Portfolio_Id",
                                   "Reporting Date", "Forward PD" >> ] ],
    [ name |-> "chargeoff_2024.csv",
      content |-> [ bytes |-> "csv",
                    headers |-> << "Instrument ID", "Charge Off Date",
                                   "netChargeOffAmount" >> ] ],
    [ name |-> "unrelated.csv",
      content |-> [ bytes |-> "csv", headers |-> << "Loan Number", "Balance" >> ] ],
    [ name |-> "empty.csv",
      content |-> [ bytes |-> "empty", headers |-> << >> ] ] }

\* the uploader states of n slots, with at most MaxUploads files in all
UploadsFor(n) ==
  { u \in [1..n -> { None } \cup { Some(f) : f \in PanelFiles }] :
      Cardinality({ i \in 1..n : u[i] # None }) <= MaxUploads }

\* a slot for an instrument reference file with one expectation, the slot
\* and the expectation each required or optional
SlotConfig(key, title, slot_required, expectation_required) ==
  [ key |-> key, title |-> title, dataset_key |-> "instrument_reference",
    required |-> slot_required,
    expectations |->
      << [ name |-> "State", match |-> "any",
           candidates |-> << "borrowerState", "collateralState" >>,
           required |-> expectation_required ] >> ]

\* the configs of a page of two such slots
SlotPages ==
  { << SlotConfig("first", "First file", r1, e1),
       SlotConfig("second", "Second file", r2, e2) >> :
      r1 \in BOOLEAN, e1 \in BOOLEAN, r2 \in BOOLEAN, e2 \in BOOLEAN }

\* files dropped on these slots: a reference file with a state column, one
\* without, a file of another type and a file of no type
SlotFiles ==
  { f \in PanelFiles :
      f.name \in { "instrumentreference_2024.csv", "reference_partial.csv",
                   "riskmetric_q1.csv", "unrelated.csv" } }

\* most calls in one session of repeated detection
MaxCalls == 4

RepeatNames == { "riskmetric_q1.csv", "unrelated.csv", "q1_reference_data.csv" }

RepeatRows ==
  { << "Instrument ID", "Portfolio_Id", "Reporting Date", "Forward PD" >>,
    << "Loan Number", "Balance" >>,
    << "Instrument ID", " instrument_identifier ", "Charge Off Date" >> }

\* arguments of the detection calls made in between
OtherDetections ==
  { [ file_name |-> "ChargeOff_2024.csv",
      sample_headers |-> << "INSTRUMENT-ID", "netChargeOffAmount" >> ],
    [ file_name |-> "instrumentreference_2024.csv",
      sample_headers |-> << "Reporting Date" >> ] }

\* arguments of the expectation matching calls made in between
OtherMatches ==
  { [ spec |-> "instrument_risk_metric",
      columns |-> << "Instrument ID", "Forward PD" >>,
      expectation |-> [ name |-> "Probability of default",
                        candidates |-> << "annualizedCumulativePD", "forwardPD" >>,
                        required |-> TRUE, match |-> "any" ] ],
    [ spec |-> "instrument_result",
      columns |-> << "Instrument ID" >>,
      expectation |-> [ name |-> "Instrument identifiers",
                        candidates |-> << "instrumentIdentifier", "portfolioIdentifier" >>,
                        required |-> TRUE, match |-> "all" ] ] }

\* most entries of the columns argument of one normalize_headers call
MaxRawHeaders == 4

\* entries of a columns argument: None, blank strings, three spellings of
\* one token and one header of another token
RawHeaderUniverse ==
  { None, Some(""), Some("  "), Some("instrument-id"), Some(" instrument_id "),
    Some("Instrument ID"), Some("Reporting Date") }

RECURSIVE RawRowsUpTo(_)
RawRowsUpTo(n) ==
  IF n = 0 THEN { << >> }
  ELSE LET shorter == RawRowsUpTo(n - 1)
       IN  shorter \cup { Append(r, h) : r \in { s \in shorter : Len(s) = n - 1 },
                                         h \in RawHeaderUniverse }

RawRows == RawRowsUpTo(MaxRawHeaders)

\* most columns of the file one field is resolved against
MaxResolveColumns == 3

\* two headers on the token instrumentid, two on the token
\* instrumentidentifier, and one other header
ResolveUniverse ==
  { "Instrument ID", "instrument-id", " instrument_identifier ",
    "INSTRUMENT_IDENTIFIER", "Reporting Date" }

RECURSIVE ResolveRowsUpTo(_)
ResolveRowsUpTo(n) ==
  IF n = 0 THEN { << >> }
  ELSE LET shorter == ResolveRowsUpTo(n - 1)
       IN  shorter \cup { Append(r, h) : r \in { s \in shorter : Len(s) = n - 1 },
                                         h \in ResolveUniverse }

ResolveRows == ResolveRowsUpTo(MaxResolveColumns)

ResolveFields == { "instrumentIdentifier", "reportingDate", "loanNumber" }

\* spellings of a header a file may carry
SpellingUniverse ==
  { "instrument_id", "InstrumentIdentifier", "instrumentidentifier",
    "Instrument ID", "INSTRUMENT-ID", "Reporting Date", "Loan Number" }

----------------------------------------------------------------------------
(* State.                                                                  *)

VARIABLES
  file_name,       \* detect_file_profile: the file name argument
  sample_headers,  \* detect_file_profile: the header row argument
  evaluations,     \* detect_file_profile: the local list of evaluations
  outcome,         \* detect_file_profile: what it returned or raised
  pc,              \* "idle" before the call, "detected" after it
  dropped          \* the (spec, field) whose matched header the user removed

VARIABLES
  uploaded_files,  \* _handle_file_uploads: the uploader's files, in order
  loaded,          \* what load_uploaded_files returned or raised
  handed,          \* the dict _handle_file_uploads returns to main
  shown_error,     \* the st.error text, or None
  upload_pc        \* "idle" before the rerun, "handled" after it

VARIABLES
  match_spec,      \* _match_columns: the key of the spec argument
  columns,         \* _match_columns: the columns argument
  expectation,     \* _match_columns: the expectation argument
  selected,        \* _match_columns: the returned dict
  missing,         \* _match_columns: the returned list
  match_pc         \* "idle" before the call, "matched" after it

VARIABLES
  page_key,        \* render_inputs_panel: the page_key argument
  configs,         \* render_inputs_panel: the configs argument
  uploaded,        \* the value of each slot's st.file_uploader
  statuses,        \* render_inputs_panel: the statuses of the returned state
  panel_pc         \* "idle" before the render, "rendered" after it

VARIABLES
  history,         \* what each call on (file_name, sample_headers) gave
  calls_log        \* the calls made so far, in order

VARIABLES
  call,            \* one call of a function of io/loader.py: its arguments
  call_result      \* what the call returned, once it has

detectVars == << file_name, sample_headers, evaluations, outcome, pc, dropped >>

uploadVars == << uploaded_files, loaded, handed, shown_error, upload_pc >>

matchVars == << match_spec, columns, expectation, selected, missing, match_pc >>

registryVars == << DATASET_SPECS, token_memo >>

panelVars == << page_key, configs, uploaded, statuses, panel_pc >>

repeatVars == << history, calls_log >>

callVars == << call, call_result >>

vars == << registryVars, detectVars, uploadVars, matchVars, panelVars,
          repeatVars, callVars >>

\* the state once schemas.py has been imported
Imported ==
  /\ DATASET_SPECS = SHIPPED_SPECS
  /\ token_memo = [a \in AliasesOf(DATASET_SPECS) |-> _normalize_token(a)]

NoOutcome == [ kind |-> "none" ]

IdleDetect ==
  /\ evaluations = << >>
  /\ outcome = NoOutcome
  /\ pc = "idle"
  /\ dropped = None

IdleUpload ==
  /\ loaded = NoOutcome
  /\ handed = EmptyDict
  /\ shown_error = None
  /\ upload_pc = "idle"

IdleMatch ==
  /\ selected = EmptyDict
  /\ missing = << >>
  /\ match_pc = "idle"

\* no detection in progress
NoDetect ==
  /\ file_name = ""
  /\ sample_headers = << >>
  /\ IdleDetect

\* no upload in progress
NoUpload ==
  /\ uploaded_files = << >>
  /\ IdleUpload

\* no column matching in progress
NoMatch ==
  /\ match_spec = ""
  /\ columns = << >>
  /\ expectation = [ name |-> "", candidates |-> << >>,
                     required |-> TRUE, match |-> "all" ]
  /\ IdleMatch

IdlePanel ==
  /\ statuses = << >>
  /\ panel_pc = "idle"

\* no panel being rendered
NoPanel ==
  /\ page_key = ""
  /\ configs = << >>
  /\ uploaded = << >>
  /\ IdlePanel

NotCalled == [ kind |-> "not called" ]

\* no single call in progress
NoCall ==
  /\ call = NotCalled
  /\ call_result = NotCalled

\* no repeated detection in progress
NoRepeat ==
  /\ history = << >>
  /\ calls_log = << >>

----------------------------------------------------------------------------
(* Detection of one uploaded header row (SpecDetect).                      *)

InitDetect ==
  /\ Imported
  /\ file_name \in FileNames
  /\ sample_headers \in HeaderRows
  /\ IdleDetect
  /\ NoUpload
  /\ NoMatch
  /\ NoPanel
  /\ NoRepeat
  /\ NoCall

\* one call of detect_file_profile(file_name, sample_headers)
Detect ==
  /\ pc = "idle"
  /\ evaluations' = detect_evaluations(file_name, sample_headers)
  /\ outcome' = detect_result(file_name, sample_headers, evaluations')
  /\ pc' = "detected"
  /\ UNCHANGED << registryVars, file_name, sample_headers, dropped,
                  uploadVars, matchVars, panelVars, repeatVars, callVars >>

\* the row without its first header that trims to `header`
RECURSIVE remove_header(_, _)
remove_header(row, header) ==
  IF Len(row) = 0 THEN << >>
  ELSE IF strip(Head(row)) = header THEN Tail(row)
  ELSE << Head(row) >> \o remove_header(Tail(row), header)

\* the user deletes the column that was matched for a required field of the
\* detected spec and uploads the file again
DropMatchedHeader ==
  /\ pc = "detected"
  /\ outcome.kind = "ok"
  /\ dropped = None
  /\ \E field \in DOMAIN outcome.diagnostics.matched_required :
       /\ sample_headers' =
            remove_header(sample_headers, outcome.diagnostics.matched_required[field])
       /\ dropped' = Some([ spec |-> outcome.dataset_key, field |-> field ])
  /\ evaluations' = << >>
  /\ outcome' = NoOutcome
  /\ pc' = "idle"
  /\ UNCHANGED << registryVars, file_name, uploadVars, matchVars, panelVars,
                  repeatVars, callVars >>

NextDetect == Detect \/ DropMatchedHeader

SpecDetect == InitDetect /\ [][NextDetect]_vars

----------------------------------------------------------------------------
(* One rerun of the sidebar uploader with a batch of files (SpecUpload).   *)

InitUpload ==
  /\ Imported
  /\ uploaded_files \in Batches
  /\ IdleUpload
  /\ NoDetect
  /\ NoMatch
  /\ NoPanel
  /\ NoRepeat
  /\ NoCall

\* one call of _handle_file_uploads(), load_uploaded_files included
HandleFileUploads ==
  /\ upload_pc = "idle"
  /\ loaded' = IF Len(uploaded_files) = 0 THEN NoOutcome
               ELSE load_uploaded_files(uploaded_files)
  /\ LET result == _handle_file_uploads(uploaded_files)
     IN  /\ handed' = result.returned
         /\ shown_error' = result.error
  /\ upload_pc' = "handled"
  /\ UNCHANGED << registryVars, uploaded_files, detectVars, matchVars,
                  panelVars, repeatVars, callVars >>

NextUpload == HandleFileUploads

SpecUpload == InitUpload /\ [][NextUpload]_vars

----------------------------------------------------------------------------
(* One expectation matched against the columns of a loaded file            *)
(* (SpecMatch).                                                            *)

InitMatch ==
  /\ Imported
  /\ match_spec \in DatasetKeys
  /\ columns \in ColumnRows
  /\ expectation \in Expectations
  /\ IdleMatch
  /\ NoDetect
  /\ NoUpload
  /\ NoPanel
  /\ NoRepeat
  /\ NoCall

\* one call of _match_columns(spec, columns, expectation)
MatchColumns ==
  /\ match_pc = "idle"
  /\ LET result == _match_columns(SpecByKey(match_spec), columns, expectation)
     IN  /\ selected' = result[1]
         /\ missing' = result[2]
  /\ match_pc' = "matched"
  /\ UNCHANGED << registryVars, match_spec, columns, expectation,
                  detectVars, uploadVars, panelVars, repeatVars, callVars >>

NextMatch == MatchColumns

SpecMatch == InitMatch /\ [][NextMatch]_vars

----------------------------------------------------------------------------
(* One render of a page's input panel (SpecPanel).                         *)

InitPanel ==
  /\ Imported
  /\ \E p \in 1..Len(PAGES) :
       /\ page_key = PAGES[p].page_key
       /\ configs = PAGES[p].configs
       /\ uploaded \in UploadsFor(Len(PAGES[p].configs))
  /\ IdlePanel
  /\ NoDetect
  /\ NoUpload
  /\ NoMatch
  /\ NoRepeat
  /\ NoCall

\* one call of render_inputs_panel(page_key, configs)
RenderInputsPanel ==
  /\ panel_pc = "idle"
  /\ statuses' = render_statuses(page_key, configs, uploaded)
  /\ panel_pc' = "rendered"
  /\ UNCHANGED << registryVars, page_key, configs, uploaded,
                  detectVars, uploadVars, matchVars, repeatVars, callVars >>

NextPanel == RenderInputsPanel

SpecPanel == InitPanel /\ [][NextPanel]_vars

----------------------------------------------------------------------------
(* A session of calls on the shared registry: detection of one             *)
(* (file_name, sample_headers) pair repeated, with other detection and     *)
(* matching calls in between (SpecRepeat).                                 *)

InitRepeat ==
  /\ Imported
  /\ file_name \in RepeatNames
  /\ sample_headers \in RepeatRows
  /\ IdleDetect
  /\ NoRepeat
  /\ NoCall
  /\ NoUpload
  /\ NoMatch
  /\ NoPanel

\* what a caller sees of detect_file_profile: the key and the score, or the
\* failure
seen_outcome(result) ==
  IF result.kind = "ok"
  THEN [ kind |-> "ok", dataset_key |-> result.dataset_key,
         score |-> result.diagnostics.score ]
  ELSE result

\* detect_file_profile(file_name, sample_headers), once more
RepeatDetect ==
  /\ Len(calls_log) < MaxCalls
  /\ evaluations' = detect_evaluations(file_name, sample_headers)
  /\ outcome' = detect_result(file_name, sample_headers, evaluations')
  /\ history' = Append(history, seen_outcome(outcome'))
  /\ calls_log' = Append(calls_log, "same")
  /\ UNCHANGED << registryVars, file_name, sample_headers, pc, dropped,
                  uploadVars, matchVars, panelVars, callVars >>

\* fault seeded for the shared registry: the call pops the first alias of
\* every alias list it was handed by alias_for
OtherDetectPopsAliases ==
  /\ Len(calls_log) < MaxCalls
  /\ \E other \in OtherDetections :
       /\ evaluations' = detect_evaluations(other.file_name, other.sample_headers)
       /\ outcome' = detect_result(other.file_name, other.sample_headers, evaluations')
  /\ DATASET_SPECS' =
       [i \in 1..Len(DATASET_SPECS) |->
          [ DATASET_SPECS[i] EXCEPT
              !.field_aliases =
                [f \in DOMAIN @ |-> IF Len(@[f]) > 0 THEN Tail(@[f]) ELSE @[f]] ]]
  /\ calls_log' = Append(calls_log, "other detection")
  /\ UNCHANGED << token_memo, file_name, sample_headers, pc, dropped, history,
                  uploadVars, matchVars, panelVars, callVars >>

\* detect_file_profile on another file, in between
OtherDetect ==
  /\ Len(calls_log) < MaxCalls
  /\ \E other \in OtherDetections :
       /\ evaluations' = detect_evaluations(other.file_name, other.sample_headers)
       /\ outcome' = detect_result(other.file_name, other.sample_headers, evaluations')
  /\ calls_log' = Append(calls_log, "other detection")
  /\ UNCHANGED << registryVars, file_name, sample_headers, pc, dropped, history,
                  uploadVars, matchVars, panelVars, callVars >>

\* _match_columns on some loaded file, in between
OtherMatch ==
  /\ Len(calls_log) < MaxCalls
  /\ \E other \in OtherMatches :
       LET result == _match_columns(SpecByKey(other.spec), other.columns,
                                    other.expectation)
       IN  /\ match_spec' = other.spec
           /\ columns' = other.columns
           /\ expectation' = other.expectation
           /\ selected' = result[1]
           /\ missing' = result[2]
  /\ calls_log' = Append(calls_log, "matching")
  /\ UNCHANGED << registryVars, detectVars, history, match_pc,
                  uploadVars, panelVars, callVars >>

NextRepeat == RepeatDetect \/ OtherDetect \/ OtherMatch

SpecRepeat == InitRepeat /\ [][NextRepeat]_vars

----------------------------------------------------------------------------
(* One alias of the registry used as the only header of a file             *)
(* (SpecAlias).                                                            *)

\* every alias of every canonical field of every spec
AliasEntries(specs) ==
  UNION { UNION { { [ kind |-> "alias", spec |-> specs[i].key, field |-> f,
                      alias |-> specs[i].field_aliases[f][k] ] :
                      k \in 1..Len(specs[i].field_aliases[f]) } :
                  f \in DOMAIN specs[i].field_aliases } :
          i \in 1..Len(specs) }

InitAlias ==
  /\ Imported
  /\ call \in AliasEntries(DATASET_SPECS)
  /\ call_result = NotCalled
  /\ NoDetect
  /\ NoUpload
  /\ NoMatch
  /\ NoPanel
  /\ NoRepeat

\* _match_alias(spec.alias_for(field), normalize_headers([alias]))
ResolveOwnAlias ==
  /\ call.kind = "alias"
  /\ call_result = NotCalled
  /\ call_result' =
       [ kind |-> "returned",
         value |-> _match_alias(alias_for(SpecByKey(call.spec), call.field),
                                normalize_headers(<< Some(call.alias) >>)) ]
  /\ UNCHANGED << registryVars, call, detectVars, uploadVars, matchVars,
                  panelVars, repeatVars >>

NextAlias == ResolveOwnAlias

SpecAlias == InitAlias /\ [][NextAlias]_vars

----------------------------------------------------------------------------
(* One call of normalize_headers (SpecHeaders).                            *)

InitHeaders ==
  /\ Imported
  /\ call \in { [ kind |-> "normalize_headers", columns |-> r ] : r \in RawRows }
  /\ call_result = NotCalled
  /\ NoDetect
  /\ NoUpload
  /\ NoMatch
  /\ NoPanel
  /\ NoRepeat

\* normalize_headers(columns)
NormalizeHeaders ==
  /\ call.kind = "normalize_headers"
  /\ call_result = NotCalled
  /\ call_result' = [ kind |-> "returned", value |-> normalize_headers(call.columns) ]
  /\ UNCHANGED << registryVars, call, detectVars, uploadVars, matchVars,
                  panelVars, repeatVars >>

NextHeaders == NormalizeHeaders

SpecHeaders == InitHeaders /\ [][NextHeaders]_vars

----------------------------------------------------------------------------
(* One canonical field resolved against the columns of one file, by        *)
(* detection and by the expectation matcher (SpecResolve).                 *)

InitResolve ==
  /\ Imported
  /\ \E i \in 1..Len(DATASET_SPECS) :
       \E f \in ResolveFields \cap DOMAIN DATASET_SPECS[i].field_aliases :
         \E r \in ResolveRows :
           call = [ kind |-> "resolve", spec |-> DATASET_SPECS[i].key,
                    field |-> f, columns |-> r ]
  /\ call_result = NotCalled
  /\ NoDetect
  /\ NoUpload
  /\ NoMatch
  /\ NoPanel
  /\ NoRepeat

\* _match_alias(spec.alias_for(field), header_map) as _evaluate_dataset
\* calls it, and find_column(field) as _match_columns calls it
ResolveField ==
  /\ call.kind = "resolve"
  /\ call_result = NotCalled
  /\ LET spec       == SpecByKey(call.spec)
         header_map == normalize_headers(present(call.columns))
     IN  call_result' =
           [ kind |-> "returned",
             detection |-> _match_alias(alias_for(spec, call.field), header_map),
             matcher |-> find_column(spec, header_map, call.field) ]
  /\ UNCHANGED << registryVars, call, detectVars, uploadVars, matchVars,
                  panelVars, repeatVars >>

NextResolve == ResolveField

SpecResolve == InitResolve /\ [][NextResolve]_vars

----------------------------------------------------------------------------
(* One canonical field of a spec resolved against a file whose only header *)
(* is one spelling (SpecSpelling).                                         *)

InitSpelling ==
  /\ Imported
  /\ \E i \in 1..Len(DATASET_SPECS) :
       \E f \in DOMAIN DATASET_SPECS[i].field_aliases :
         \E h \in SpellingUniverse :
           call = [ kind |-> "spelling", spec |-> DATASET_SPECS[i].key,
                    field |-> f, header |-> h ]
  /\ call_result = NotCalled
  /\ NoDetect
  /\ NoUpload
  /\ NoMatch
  /\ NoPanel
  /\ NoRepeat

\* _match_alias(spec.alias_for(field), normalize_headers([header]))
ResolveSpelling ==
  /\ call.kind = "spelling"
  /\ call_result = NotCalled
  /\ call_result' =
       [ kind |-> "returned",
         value |-> _match_alias(alias_for(SpecByKey(call.spec), call.field),
                                normalize_headers(<< Some(call.header) >>)) ]
  /\ UNCHANGED << registryVars, call, detectVars, uploadVars, matchVars,
                  panelVars, repeatVars >>

NextSpelling == ResolveSpelling

SpecSpelling == InitSpelling /\ [][NextSpelling]_vars

----------------------------------------------------------------------------
(* One render of the input panel of a page whose slots and expectations    *)
(* are each required or optional (SpecSlots).                              *)

InitSlots ==
  /\ Imported
  /\ page_key = "slots"
  /\ configs \in SlotPages
  /\ uploaded \in [1..2 -> { None } \cup { Some(f) : f \in SlotFiles }]
  /\ IdlePanel
  /\ NoDetect
  /\ NoUpload
  /\ NoMatch
  /\ NoRepeat
  /\ NoCall

SpecSlots == InitSlots /\ [][NextPanel]_vars

----------------------------------------------------------------------------
(* The columns recorded for one file: by _evaluate_dataset for one spec,   *)
(* and by _match_columns for one expectation on the same columns           *)
(* (SpecSound).                                                            *)

InitSound ==
  /\ Imported
  /\ \E key \in DatasetKeys :
       \E r \in ColumnRows :
         \E e \in Expectations :
           call = [ kind |-> "record", spec |-> key, file_name |-> "upload.csv",
                    columns |-> r, expectation |-> e ]
  /\ call_result = [ kind |-> "recording", evaluation |-> None,
                     selected |-> None ]
  /\ NoDetect
  /\ NoUpload
  /\ NoMatch
  /\ NoPanel
  /\ NoRepeat

\* _evaluate_dataset(spec, file_name, normalize_headers(sample_headers)), as
\* detect_file_profile calls it for each spec
EvaluateDataset ==
  /\ call.kind = "record"
  /\ call_result.evaluation = None
  /\ call_result' =
       [ call_result EXCEPT
           !.evaluation =
             Some(_evaluate_dataset(SpecByKey(call.spec), call.file_name,
                                    normalize_headers(present(call.columns)))) ]
  /\ UNCHANGED << registryVars, call, detectVars, uploadVars, matchVars,
                  panelVars, repeatVars >>

\* selected, _ = _match_columns(spec, columns, expectation)
MatchExpectation ==
  /\ call.kind = "record"
  /\ call_result.selected = None
  /\ call_result' =
       [ call_result EXCEPT
           !.selected =
             Some(_match_columns(SpecByKey(call.spec), call.columns,
                                 call.expectation)[1]) ]
  /\ UNCHANGED << registryVars, call, detectVars, uploadVars, matchVars,
                  panelVars, repeatVars >>

NextSound == EvaluateDataset \/ MatchExpectation

SpecSound == InitSound /\ [][NextSound]_vars

----------------------------------------------------------------------------
(* One expectation of any match value matched against the columns of a     *)
(* loaded file (SpecMode).                                                 *)

InitMode ==
  /\ Imported
  /\ match_spec \in DatasetKeys
  /\ columns \in ColumnRows
  /\ expectation \in ModeExpectations
  /\ IdleMatch
  /\ NoDetect
  /\ NoUpload
  /\ NoPanel
  /\ NoRepeat
  /\ NoCall

SpecMode == InitMode /\ [][NextMatch]_vars

----------------------------------------------------------------------------
(* Vocabulary of the properties, stated on the header row itself rather    *)
(* than through the matching code.                                         *)

Range(seq) == { seq[i] : i \in 1..Len(seq) }

\* tokens of the non-blank headers of a row
TokensOfRow(row) ==
  { _normalize_token(strip(h)) : h \in { x \in Range(row) : Len(strip(x)) > 0 } }

\* some alias of the field has its token among the tokens
ResolvableIn(spec, field, tokens) ==
  \E a \in Range(alias_for(spec, field)) : alias_token(a) \in tokens

\* some alias of the field has its token in the row
Resolvable(spec, field, row) == ResolvableIn(spec, field, TokensOfRow(row))

\* the specs whose required fields are all resolvable in the row
ViableKeysFor(row) ==
  LET tokens == TokensOfRow(row)
  IN  { k \in DatasetKeys :
          \A f \in Range(SpecByKey(k).required_fields) :
            ResolvableIn(SpecByKey(k), f, tokens) }

EvaluationOf(key) ==
  evaluations[CHOOSE i \in 1..Len(evaluations) : evaluations[i].spec = key]

\* (total_score, score_required, score_optional) of a is lexicographically
\* at least that of b
LexAtLeast(a, b) ==
  IF a.total_score # b.total_score THEN a.total_score > b.total_score
  ELSE IF a.score_required # b.score_required
       THEN a.score_required > b.score_required
  ELSE a.score_optional >= b.score_optional

IsPrefixOf(p, s) ==
  /\ Len(p) <= Len(s)
  /\ \A i \in 1..Len(p) : CharAt(s, i) = CharAt(p, i)

IsSubstringOf(p, s) ==
  \E off \in 0..(Len(s) - Len(p)) :
    \A i \in 1..Len(p) : CharAt(s, off + i) = CharAt(p, i)

Detected == pc = "detected"

----------------------------------------------------------------------------
(* Properties of detection (checked under SpecDetect).                     *)

\* C2: detect_file_profile fails exactly when no spec has all of its
\* required fields matched by the header row; otherwise it returns, and the
\* dataset_key it returns is that of a spec whose required fields are all
\* matched, even when a non-viable spec scores strictly higher.
C2_FailsIffNoViableSpec ==
  Detected =>
    LET viable == ViableKeysFor(sample_headers)
    IN  /\ outcome.kind \in {"ok", "error"}
        /\ (outcome.kind = "error") <=> (viable = {})
        /\ outcome.kind = "ok" => outcome.dataset_key \in viable

\* two specs are viable, and a non-viable spec outscores the one returned
C2_Witness ==
  /\ Detected
  /\ outcome.kind = "ok"
  /\ Cardinality(ViableKeysFor(sample_headers)) >= 2
  /\ \E k \in DatasetKeys \ ViableKeysFor(sample_headers) :
       EvaluationOf(k).total_score > outcome.diagnostics.score

\* C3: the spec returned has a lexicographically maximal
\* (total_score, score_required, score_optional) among the viable specs; with
\* equal total_score the higher score_required wins.
C3_SelectsLexicographicMaximum ==
  (Detected /\ outcome.kind = "ok") =>
    \A k \in ViableKeysFor(sample_headers) :
      LexAtLeast(EvaluationOf(outcome.dataset_key), EvaluationOf(k))

\* a viable spec ties the returned one on total_score with a lower
\* score_required
C3_Witness ==
  /\ Detected
  /\ outcome.kind = "ok"
  /\ \E k \in ViableKeysFor(sample_headers) :
       /\ EvaluationOf(k).total_score
            = EvaluationOf(outcome.dataset_key).total_score
       /\ EvaluationOf(k).score_required
            < EvaluationOf(outcome.dataset_key).score_required

\* the message names spec `key` and lists each required field of it that the
\* row does not resolve, with the field's whole alias list
NamesAndListsMissing(message, key, row) ==
  LET spec == SpecByKey(key)
      tokens == TokensOfRow(row)
  IN  /\ IsSubstringOf("resembles '" \o spec.display_name \o "' but is missing",
                       message)
      /\ \A f \in { x \in Range(spec.required_fields) :
                      ~ResolvableIn(spec, x, tokens) } :
           IsSubstringOf(f \o " (candidates: " \o join(", ", alias_for(spec, f)) \o ")",
                         message)

HighestTotal(key) ==
  \A k \in DatasetKeys : EvaluationOf(key).total_score >= EvaluationOf(k).total_score

\* C4: with no viable spec the error is built from an evaluation of highest
\* total_score: it names that spec's display name and lists every missing
\* required field with its full alias list.  The row ["Loan Number",
\* "Balance"] is rejected under every file name, with all required fields of
\* the best guess listed.
C4_ErrorNamesBestGuess ==
  /\ (Detected /\ outcome.kind = "error") =>
       \E k \in DatasetKeys :
         /\ HighestTotal(k)
         /\ NamesAndListsMissing(outcome.message, k, sample_headers)
  /\ (Detected /\ sample_headers = << "Loan Number", "Balance" >>) =>
       /\ outcome.kind = "error"
       /\ \E k \in DatasetKeys :
            /\ HighestTotal(k)
            /\ \A f \in Range(SpecByKey(k).required_fields) :
                 IsSubstringOf(f \o " (candidates: ", outcome.message)

\* a rejected row whose best guess is not the first spec of the registry
C4_Witness ==
  /\ Detected
  /\ outcome.kind = "error"
  /\ ~HighestTotal(DATASET_SPECS[1].key)

\* C5: score_required = 5 x matched required fields, score_optional =
\* matched identifying fields, total_score = their sum plus filename_bonus,
\* filename_bonus in 0..2, so 0 <= total_score <= 5|required| + |identifying| + 2.
C5_ScoreFormula ==
  Detected =>
    \A tokens \in { TokensOfRow(sample_headers) } : \A k \in DatasetKeys :
      LET spec == SpecByKey(k)
          e    == EvaluationOf(k)
          nreq == Cardinality({ f \in Range(spec.required_fields) :
                                  ResolvableIn(spec, f, tokens) })
          nopt == Cardinality({ f \in Range(spec.identifying_fields) :
                                  ResolvableIn(spec, f, tokens) })
      IN  /\ e.score_required = 5 * nreq
          /\ e.score_optional = nopt
          /\ e.filename_bonus \in 0..2
          /\ e.total_score = e.score_required + e.score_optional + e.filename_bonus
          /\ 0 <= e.total_score
          /\ e.total_score <= 5 * Len(spec.required_fields)
                                + Len(spec.identifying_fields) + 2

\* an evaluation with required, identifying and file name contributions
C5_Witness ==
  /\ Detected
  /\ \E k \in DatasetKeys :
       /\ EvaluationOf(k).score_required >= 10
       /\ EvaluationOf(k).score_optional >= 1
       /\ EvaluationOf(k).filename_bonus >= 1

TierOf(spec, name) ==
  LET lowered == lower(name)
  IN  IF \E p \in Range(spec.filename_prefixes) : IsPrefixOf(p, lowered) THEN 2
      ELSE IF \E p \in Range(spec.filename_prefixes) : IsSubstringOf(p, lowered) THEN 1
      ELSE 0

\* C6: filename_bonus is 2 when the lowercased name starts with a prefix of
\* the spec, else 1 when it contains one, else 0, never the sum of both; for
\* instrument_reference: instrumentreference_2024.csv 2,
\* q1_reference_data.csv 1, unrelated.csv 0.
C6_FilenameBonusTiers ==
  Detected =>
    /\ \A k \in DatasetKeys :
         EvaluationOf(k).filename_bonus = TierOf(SpecByKey(k), file_name)
    /\ file_name = "instrumentreference_2024.csv"
         => EvaluationOf("instrument_reference").filename_bonus = 2
    /\ file_name = "q1_reference_data.csv"
         => EvaluationOf("instrument_reference").filename_bonus = 1
    /\ file_name = "unrelated.csv"
         => EvaluationOf("instrument_reference").filename_bonus = 0

\* a name that both starts with and contains a prefix scores 2
C6_Witness ==
  /\ Detected
  /\ file_name = "instrumentreference_2024.csv"
  /\ EvaluationOf("instrument_reference").filename_bonus = 2

EndToEndRow ==
  << "Instrument ID", "Portfolio_Id", "Reporting Date", "Forward PD" >>

\* C7: the row ["Instrument ID", "Portfolio_Id", "Reporting Date",
\* "Forward PD"] named riskmetric_q1.csv is detected as
\* instrument_risk_metric, although instrument_reference, instrument_result
\* and chargeoff are viable too; instrumentIdentifier is matched to
\* "Instrument ID", reportingDate to "Reporting Date", and matched_optional
\* holds forwardPD.
C7_EndToEndRiskMetric ==
  (Detected /\ file_name = "riskmetric_q1.csv" /\ sample_headers = EndToEndRow) =>
    /\ outcome.kind = "ok"
    /\ outcome.dataset_key = "instrument_risk_metric"
    /\ outcome.diagnostics.matched_required
         = [ instrumentIdentifier |-> "Instrument ID",
             reportingDate |-> "Reporting Date" ]
    /\ "forwardPD" \in DOMAIN outcome.diagnostics.matched_optional
    /\ { "instrument_reference", "instrument_result", "chargeoff" }
         \subseteq ViableKeysFor(sample_headers)

C7_Witness ==
  /\ Detected
  /\ file_name = "riskmetric_q1.csv"
  /\ sample_headers = EndToEndRow
  /\ outcome.kind = "ok"

\* the spec classified before the removal is out of the running afterwards
DroppedSpecNotViable ==
  /\ Cardinality(DOMAIN EvaluationOf(dropped[1].spec).matched_required)
       < Len(SpecByKey(dropped[1].spec).required_fields)
  /\ outcome.kind = "ok" => outcome.dataset_key # dropped[1].spec

\* C8 as stated: removing the header matched for a required field of the
\* detected spec S always leaves S non-viable.
C8_RemovalAlwaysBreaksViability ==
  (Detected /\ dropped # None) => DroppedSpecNotViable

\* C8, amended: removing the header matched for a required field of the
\* detected spec S leaves S non-viable, provided no remaining header of the
\* row normalises to the token of an alias of that field.
C8_RemovalBreaksViabilityUnlessRespelled ==
  (/\ Detected
   /\ dropped # None
   /\ ~Resolvable(SpecByKey(dropped[1].spec), dropped[1].field, sample_headers))
    => DroppedSpecNotViable

\* the only spelling of a required field was removed and the file detected again
C8_Witness ==
  /\ Detected
  /\ dropped # None
  /\ ~Resolvable(SpecByKey(dropped[1].spec), dropped[1].field, sample_headers)
  /\ outcome.kind = "ok"

----------------------------------------------------------------------------
(* Properties of a batch of uploads (checked under SpecUpload).            *)

\* the file is not empty, pandas reads it, and some spec has every required
\* field in its header row: alone in a batch, it would be loaded
AcceptedAlone(file) ==
  /\ file.content.bytes = "csv"
  /\ ViableKeysFor(file.content.headers) # {}

\* the file is neither skipped as empty nor accepted
FailsAlone(file) ==
  /\ file.content.bytes # "empty"
  /\ ~AcceptedAlone(file)

\* some list of the dict holds a record of the file
PresentIn(result, fname) ==
  \E k \in DOMAIN result :
    \E i \in 1..Len(result[k]) : result[k][i].file_name = fname

Handled == upload_pc = "handled"

\* C1: in a batch, wherever the failing file stands, every other file that
\* would be accepted on its own has a record in the result handed to the
\* caller.
C1_BatchFilesIndependent ==
  Handled =>
    \A i, j \in 1..Len(uploaded_files) :
      ( /\ i # j
        /\ FailsAlone(uploaded_files[i])
        /\ AcceptedAlone(uploaded_files[j]) )
      => PresentIn(handed, uploaded_files[j].name)

\* a handled batch where a file fails after an acceptable one was read, and
\* the caller is handed nothing
C1_Witness ==
  /\ Handled
  /\ Len(uploaded_files) >= 2
  /\ AcceptedAlone(uploaded_files[1])
  /\ FailsAlone(uploaded_files[2])
  /\ shown_error # None
  /\ handed = EmptyDict

----------------------------------------------------------------------------
(* Properties of _match_columns (checked under SpecMatch).                 *)

Matched == match_pc = "matched"

\* positions of the candidates that some column resolves
ResolvingPositions ==
  { i \in 1..Len(expectation.candidates) :
      Resolvable(SpecByKey(match_spec), expectation.candidates[i], columns) }

\* the column recorded for the candidate is a trimmed column of the file
\* whose token is the token of one of the candidate's aliases
RecordedColumnMatches(canonical) ==
  \E h \in Range(columns) :
    /\ selected[canonical] = strip(h)
    /\ \E a \in Range(alias_for(SpecByKey(match_spec), canonical)) :
         alias_token(a) = _normalize_token(strip(h))

\* C9: with match mode "any", selected holds exactly one entry, for the
\* first candidate in declared order that resolves, and missing is empty;
\* no later candidate is recorded even when the columns match it too.
C9_AnySelectsFirstResolving ==
  (Matched /\ expectation.match = "any" /\ ResolvingPositions # {}) =>
    LET first == CHOOSE i \in ResolvingPositions :
                   \A j \in ResolvingPositions : i <= j
    IN  /\ DOMAIN selected = { expectation.candidates[first] }
        /\ RecordedColumnMatches(expectation.candidates[first])
        /\ missing = << >>

\* candidates [A, B] under "any" where the columns match both
C9_Witness ==
  /\ Matched
  /\ expectation.match = "any"
  /\ Len(expectation.candidates) = 2
  /\ ResolvingPositions = {1, 2}
  /\ DOMAIN selected = { expectation.candidates[1] }

\* C10: with match mode "all", selected holds exactly the candidates that
\* resolve, each mapped to its matched column, and missing lists the
\* candidates that do not resolve, by canonical name, in declared order.
C10_AllReportsEachCandidate ==
  (Matched /\ expectation.match = "all") =>
    /\ DOMAIN selected =
         { expectation.candidates[i] : i \in ResolvingPositions }
    /\ \A c \in DOMAIN selected : RecordedColumnMatches(c)
    /\ missing =
         SelectSeq(expectation.candidates,
                   LAMBDA c : ~Resolvable(SpecByKey(match_spec), c, columns))

\* candidates [A, B] under "all" where only A resolves
C10_Witness ==
  /\ Matched
  /\ expectation.match = "all"
  /\ Len(expectation.candidates) = 2
  /\ ResolvingPositions = {1}
  /\ missing = << expectation.candidates[2] >>
  /\ DOMAIN selected = { expectation.candidates[1] }

\* the candidates written one after the other with " / " between them
RECURSIVE SlashJoined(_)
SlashJoined(candidates) ==
  IF Len(candidates) = 1 THEN candidates[1]
  ELSE candidates[1] \o " / " \o SlashJoined(Tail(candidates))

\* C11: with match mode "any" and no candidate resolving, selected is empty
\* and missing is the single " / "-joined list of all candidates when the
\* expectation is required, and empty when it is not.
C11_AnyNoneResolving ==
  (Matched /\ expectation.match = "any" /\ ResolvingPositions = {}) =>
    /\ DOMAIN selected = {}
    /\ expectation.required => missing = << SlashJoined(expectation.candidates) >>
    /\ ~expectation.required => missing = << >>

\* an optional "any" expectation with two candidates, neither resolving
C11_Witness ==
  /\ Matched
  /\ expectation.match = "any"
  /\ ~expectation.required
  /\ Len(expectation.candidates) = 2
  /\ ResolvingPositions = {}
  /\ missing = << >>

----------------------------------------------------------------------------
(* Properties of the input panel (checked under SpecPanel and SpecSlots).  *)

Rendered == panel_pc = "rendered"

\* the slot holds a file that pandas reads and that detection classifies
DetectedTypeOf(i) ==
  IF uploaded[i] # None /\ uploaded[i][1].content.bytes = "csv"
  THEN LET detected == detect_file_profile(uploaded[i][1].name,
                                           uploaded[i][1].content.headers)
       IN  IF detected.kind = "ok" THEN Some(detected.dataset_key) ELSE None
  ELSE None

\* a file was uploaded to the slot, it was detected as the slot's dataset
\* type, and the slot recorded no error
SlotLoadedSuccessfully(i) ==
  /\ uploaded[i] # None
  /\ DetectedTypeOf(i) = Some(configs[i].dataset_key)
  /\ Len(statuses[i].errors) = 0

\* the expectation, evaluated on the columns of the slot's file, lacks a
\* candidate ("all") or every candidate ("any")
HasMissingEntries(i, e) ==
  /\ DetectedTypeOf(i) = Some(configs[i].dataset_key)
  /\ LET spec    == SpecByKey(configs[i].dataset_key)
         headers == uploaded[i][1].content.headers
     IN  IF e.match = "all"
         THEN \E c \in Range(e.candidates) : ~Resolvable(spec, c, headers)
         ELSE \A c \in Range(e.candidates) : ~Resolvable(spec, c, headers)

\* C12: the panel is ready exactly when no required expectation of any slot
\* of the page has a missing entry and every required slot has loaded
\* successfully.
C12_ReadyIffRequiredSatisfied ==
  Rendered =>
    ( ready(statuses) <=>
        /\ \A i \in 1..Len(configs) :
             \A e \in Range(configs[i].expectations) :
               e.required => ~HasMissingEntries(i, e)
        /\ \A i \in 1..Len(configs) :
             configs[i].required => SlotLoadedSuccessfully(i) )

\* a page with a required slot loaded and an optional slot whose file lacks
\* a required expectation of that slot is ready
C12_Witness ==
  /\ Rendered
  /\ \A i \in 1..Len(configs) : configs[i].required => SlotLoadedSuccessfully(i)
  /\ \E i \in 1..Len(configs) : configs[i].required
  /\ \E i \in 1..Len(configs) :
       \E e \in Range(configs[i].expectations) :
         /\ ~configs[i].required
         /\ e.required
         /\ HasMissingEntries(i, e)
         /\ statuses[i].missing_headers = << "State: borrowerState / collateralState" >>
  /\ ready(statuses)

----------------------------------------------------------------------------
(* Properties of repeated detection (checked under SpecRepeat).            *)

\* C13: every call of detect_file_profile on the same file name and header
\* row gives the same outcome, the same dataset_key and total_score or the
\* same failure, whatever detection or matching calls were made in between.
C13_DetectionIdempotent ==
  \A i, j \in 1..Len(history) : history[i] = history[j]

\* the pair detected, another detection and a matching call made, and the
\* pair detected again
C13_Witness ==
  /\ calls_log = << "same", "other detection", "matching", "same" >>
  /\ Len(history) = 2
  /\ history[1].kind = "ok"
  /\ history[2] = history[1]

----------------------------------------------------------------------------
(* Properties of the alias registry (checked under SpecAlias).             *)

\* C14: for every spec, every canonical field of its alias map and every
\* alias in the field's list, resolving the field against the normalized
\* header map of a file whose only header is that alias succeeds and
\* returns that alias.
C14_AliasSymmetry ==
  (call.kind = "alias" /\ call_result.kind = "returned") =>
    /\ Len(call_result.value) = 1
    /\ call_result.value[1] = call.alias

\* a later alias of a list, with the token of the first alias of the list,
\* has been resolved
C14_Witness ==
  /\ call.kind = "alias"
  /\ call.spec = "instrument_reference"
  /\ call.field = "instrumentIdentifier"
  /\ call.alias = "instrument_identifier"
  /\ call_result.kind = "returned"
  /\ call_result.value = << "instrument_identifier" >>

----------------------------------------------------------------------------
(* Properties of normalize_headers (checked under SpecHeaders).            *)

Normalized ==
  /\ call.kind = "normalize_headers"
  /\ call_result.kind = "returned"

\* a header that is neither null nor blank once trimmed
IsKept(column) == column # None /\ Len(strip(column[1])) > 0

TokenOfHeader(column) == _normalize_token(column[1])

\* the kept headers of the token, in input order
KeptUnder(cols, token) ==
  LET HasToken(column) == IsKept(column) /\ TokenOfHeader(column) = token
  IN  SelectSeq(cols, HasToken)

KeptTokens(cols) ==
  { TokenOfHeader(cols[i]) : i \in { k \in 1..Len(cols) : IsKept(cols[k]) } }

----------------------------------------------------------------------------
(* Properties of field resolution (checked under SpecResolve).             *)

FieldResolved ==
  /\ call.kind = "resolve"
  /\ call_result.kind = "returned"

\* the positions of the columns of the token
PositionsOfToken(cols, token) ==
  { i \in 1..Len(cols) : Len(strip(cols[i])) > 0
                         /\ _normalize_token(cols[i]) = token }

\* the positions, in the alias list, of the aliases some column spells
SpelledAliases(aliases, cols) ==
  { k \in 1..Len(aliases) :
      PositionsOfToken(cols, _normalize_token(aliases[k])) # {} }

Least(S) == CHOOSE n \in S : \A other \in S : n <= other

\* what the rule gives: nothing when no alias is spelled, else the first
\* column, trimmed, of the token of the first spelled alias
RuleGives(aliases, cols) ==
  IF SpelledAliases(aliases, cols) = {} THEN << >>
  ELSE LET alias == aliases[Least(SpelledAliases(aliases, cols))]
       IN  << strip(cols[Least(PositionsOfToken(cols, _normalize_token(alias)))]) >>

----------------------------------------------------------------------------
(* Properties of a zero-byte upload (checked under SpecUpload and          *)
(* SpecPanel).                                                             *)

IsZeroByte(file) == file.content.bytes = "empty"

\* In a batch handed to load_uploaded_files, a zero-byte file is skipped:
\* whatever is raised names another file, the file is in no dataset group,
\* and when no file of the batch fails every other file has its record.
LoaderSkipsZeroByteFile ==
  Handled =>
    \A i \in 1..Len(uploaded_files) :
      IsZeroByte(uploaded_files[i]) =>
        /\ loaded.kind = "raised" =>
             \E j \in 1..Len(uploaded_files) :
               /\ FailsAlone(uploaded_files[j])
               /\ IsSubstringOf("'" \o uploaded_files[j].name \o "'", loaded.message)
        /\ loaded.kind = "returned" => ~PresentIn(loaded.loaded, uploaded_files[i].name)
        /\ (\A j \in 1..Len(uploaded_files) : ~FailsAlone(uploaded_files[j])) =>
             /\ loaded.kind = "returned"
             /\ \A j \in 1..Len(uploaded_files) :
                  AcceptedAlone(uploaded_files[j]) =>
                    PresentIn(loaded.loaded, uploaded_files[j].name)

\* C17: a zero-byte upload is skipped and never treated as a hard error; in
\* particular no error is recorded for it in the status of the page slot it
\* is uploaded to.
C17_ZeroByteSlotRecordsNoError ==
  Rendered =>
    \A i \in 1..Len(configs) :
      (uploaded[i] # None /\ IsZeroByte(uploaded[i][1])) =>
        statuses[i].errors = << >>

\* a zero-byte file uploaded to a required slot, the slot with an error that
\* names no detected type, and the panel not ready
C17_Witness ==
  /\ Rendered
  /\ \E i \in 1..Len(configs) :
       /\ configs[i].required
       /\ uploaded[i] # None
       /\ IsZeroByte(uploaded[i][1])
       /\ statuses[i].errors =
            << "Detected dataset type(s): none. Expected '"
                 \o configs[i].dataset_key \o "'." >>
       /\ ~is_loaded(statuses[i])
  /\ ~ready(statuses)

----------------------------------------------------------------------------
(* Properties of a slot given a file of another dataset type (checked      *)
(* under SpecPanel).                                                       *)

\* the slot holds a file that detection classifies as another type than the
\* slot's
MismatchedSlot(i) ==
  /\ DetectedTypeOf(i) # None
  /\ DetectedTypeOf(i)[1] # configs[i].dataset_key

\* C18: when the file of a slot classifies as a dataset type other than the
\* slot's dataset_key, the slot records one error that names the detected
\* and the expected type and is not the no-viable-schema error, the slot is
\* not loaded, and no expectation is evaluated: selected_columns and
\* missing_headers stay empty.
C18_MismatchedTypeReported ==
  Rendered =>
    \A i \in 1..Len(configs) :
      MismatchedSlot(i) =>
        /\ statuses[i].errors =
             << "Detected dataset type(s): " \o DetectedTypeOf(i)[1]
                  \o ". Expected '" \o configs[i].dataset_key \o "'." >>
        /\ ~IsSubstringOf("missing required headers", statuses[i].errors[1])
        /\ ~is_loaded(statuses[i])
        /\ DOMAIN statuses[i].selected_columns = {}
        /\ statuses[i].missing_headers = << >>

\* a risk metric file, whose identifier column the slot's expectations could
\* have matched, in an instrument_result slot
C18_Witness ==
  /\ Rendered
  /\ \E i \in 1..Len(configs) :
       /\ MismatchedSlot(i)
       /\ configs[i].dataset_key = "instrument_result"
       /\ uploaded[i][1].name = "riskmetric_q1.csv"
       /\ statuses[i].errors =
            << "Detected dataset type(s): instrument_risk_metric. Expected 'instrument_result'." >>
       /\ DOMAIN statuses[i].selected_columns = {}

----------------------------------------------------------------------------
(* Properties of the candidates of the pages' expectations (checked under  *)
(* SpecPanel and SpecMatch).                                               *)

\* the canonical field is a key of the alias map of the spec
Registered(key, field) == field \in DOMAIN SpecByKey(key).field_aliases

\* C19: every canonical field listed as a candidate in an expectation of a
\* slot of a page is a key of the alias map of the DatasetSpec the slot's
\* dataset_key names.
C19_CandidatesAreAliasMapKeys ==
  \A i \in 1..Len(configs) :
    \A e \in Range(configs[i].expectations) :
      \A c \in Range(e.candidates) :
        Registered(configs[i].dataset_key, c)

\* the real estate page rendered with a result file in its result_current
\* slot: three candidates of the slot are no keys of the alias map of
\* instrument_result, and each was matched to the column of its own name
C19_Witness ==
  /\ Rendered
  /\ page_key = "real_estate_pd"
  /\ \E i \in 1..Len(configs) :
       /\ configs[i].key = "result_current"
       /\ configs[i].dataset_key = "instrument_result"
       /\ uploaded[i] # None
       /\ uploaded[i][1].name = "result_pd.csv"
       /\ \A c \in { "annualizedPDOneYear", "lgdLifetime", "amortizedCost" } :
            /\ \E e \in Range(configs[i].expectations) : c \in Range(e.candidates)
            /\ ~Registered("instrument_result", c)
            /\ c \in DOMAIN statuses[i].selected_columns
            /\ statuses[i].selected_columns[c] = c

\* the call came to look the candidate up: every candidate of an "all"
\* expectation, and those of an "any" expectation up to the first that
\* resolves
LookedUp(k) ==
  \/ expectation.match = "all"
  \/ \A j \in 1..(k - 1) :
       expectation.candidates[j] \notin DOMAIN selected

\* the candidate came out of the call as an ordinary matched column
TakenAsMatched(c) == c \in DOMAIN selected

\* the candidate came out of the call as an ordinary missing column
TakenAsMissing(c) ==
  IF expectation.match = "all" THEN c \in Range(missing)
  ELSE missing # << >>

\* C20: resolving an expectation with a candidate that is no key of the
\* alias map of the slot's dataset fails loudly: the candidate does not come
\* out of the call as an ordinary matched or missing column.
C20_UnregisteredCandidateFailsLoudly ==
  Matched =>
    \A k \in 1..Len(expectation.candidates) :
      ( /\ ~Registered(match_spec, expectation.candidates[k])
        /\ LookedUp(k) )
      => /\ ~TakenAsMatched(expectation.candidates[k])
         /\ ~TakenAsMissing(expectation.candidates[k])

\* a candidate that is in no alias map, matched to the column that spells
\* its own name, and the call returned as for any other column
C20_Witness ==
  /\ Matched
  /\ match_spec = "instrument_reference"
  /\ expectation.candidates = << "loanNumber" >>
  /\ ~Registered(match_spec, "loanNumber")
  /\ columns = << "Loan Number" >>
  /\ selected = [c \in { "loanNumber" } |-> "Loan Number"]
  /\ missing = << >>

----------------------------------------------------------------------------
(* Properties of the grouping of a batch (checked under SpecUpload).       *)

\* load_uploaded_files returned, that is, raised nothing
LoadReturned == Handled /\ loaded.kind = "returned"

NonEmptyFiles ==
  SelectSeq(uploaded_files, LAMBDA f : f.content.bytes # "empty")

\* the dataset_key detection gives the file
DetectedKeyOf(f) == detect_file_profile(f.name, f.content.headers).dataset_key

\* the names of the non-empty files detected as the key, in input order
NamesDetectedAs(key) ==
  LET files == SelectSeq(NonEmptyFiles, LAMBDA f : DetectedKeyOf(f) = key)
  IN  [i \in 1..Len(files) |-> files[i].name]

\* C21: after load_uploaded_files returns, every non-empty file of the
\* batch appears exactly once in the result, in the group of its detected
\* dataset_key and with that key in its record; files of one type are all
\* kept in their group, in input order.
C21_FilesGroupedByDetectedKey ==
  LoadReturned =>
    /\ DOMAIN loaded.loaded =
         { DetectedKeyOf(NonEmptyFiles[i]) : i \in 1..Len(NonEmptyFiles) }
    /\ \A key \in DOMAIN loaded.loaded :
         /\ [i \in 1..Len(loaded.loaded[key]) |-> loaded.loaded[key][i].file_name]
              = NamesDetectedAs(key)
         /\ \A i \in 1..Len(loaded.loaded[key]) :
              loaded.loaded[key][i].dataset_key = key

\* a batch of an empty file and two files of one type: the group holds both
\* records, in input order
C21_Witness ==
  /\ LoadReturned
  /\ Len(uploaded_files) = 3
  /\ Len(NonEmptyFiles) = 2
  /\ \E key \in DOMAIN loaded.loaded :
       /\ Len(loaded.loaded[key]) = 2
       /\ loaded.loaded[key][1].file_name = NonEmptyFiles[1].name
       /\ loaded.loaded[key][2].file_name = NonEmptyFiles[2].name

----------------------------------------------------------------------------
(* Properties of the shipped alias lists (checked under SpecSpelling).     *)

SpellingResolved ==
  /\ call.kind = "spelling"
  /\ call_result.kind = "returned"

\* C22: in every spec the headers instrument_id, InstrumentIdentifier and
\* instrumentidentifier each resolve the canonical field
\* instrumentIdentifier; the alias list of every canonical field starts
\* with the canonical name and holds no alias twice.
C22_ShippedAliasLists ==
  /\ \A i \in 1..Len(DATASET_SPECS) :
       \A f \in DOMAIN DATASET_SPECS[i].field_aliases :
         LET aliases == DATASET_SPECS[i].field_aliases[f]
         IN  /\ Len(aliases) > 0
             /\ aliases[1] = f
             /\ \A j, k \in 1..Len(aliases) : j # k => aliases[j] # aliases[k]
  /\ ( /\ SpellingResolved
       /\ call.field = "instrumentIdentifier"
       /\ call.header \in { "instrument_id", "InstrumentIdentifier",
                            "instrumentidentifier" } )
     => call_result.value = << call.header >>

\* the capitalised spelling resolved in the spec that requires nothing else
C22_Witness ==
  /\ SpellingResolved
  /\ call.spec = "chargeoff"
  /\ call.field = "instrumentIdentifier"
  /\ call.header = "InstrumentIdentifier"
  /\ call_result.value = << "InstrumentIdentifier" >>

----------------------------------------------------------------------------
(* Properties of the report of missing headers (checked under SpecPanel).  *)

\* the entries of the slot's missing_headers filed under the expectation
EntriesUnder(i, e) ==
  SelectSeq(statuses[i].missing_headers,
            LAMBDA entry : IsPrefixOf(e.name \o ": ", entry))

\* C23: a missing required expectation of a loaded slot is reported once,
\* under the expectation's human-readable name, and the entry does not
\* contain the raw canonical field key.
C23_MissingReportedByNameOnly ==
  Rendered =>
    \A i \in 1..Len(configs) :
      \A e \in Range(configs[i].expectations) :
        ( /\ SlotLoadedSuccessfully(i)
          /\ e.required
          /\ HasMissingEntries(i, e) )
        => /\ Len(EntriesUnder(i, e)) = 1
           /\ \A c \in Range(e.candidates) :
                ~IsSubstringOf(c, EntriesUnder(i, e)[1])

\* a loaded slot whose file lacks a required expectation: the entry is the
\* expectation's name followed by the canonical field key
C23_Witness ==
  /\ Rendered
  /\ \E i \in 1..Len(configs) :
       \E e \in Range(configs[i].expectations) :
         /\ SlotLoadedSuccessfully(i)
         /\ e.required
         /\ e.match = "all"
         /\ Len(e.candidates) = 1
         /\ HasMissingEntries(i, e)
         /\ EntriesUnder(i, e) = << e.name \o ": " \o e.candidates[1] >>

----------------------------------------------------------------------------
(* Properties of detection that follow from the shipped registry (checked  *)
(* under SpecDetect).                                                      *)

IdentifierTokens == { "instrumentidentifier", "instrumentid" }

\* some header of the row spells the instrument identifier
HasIdentifierHeader(row) ==
  \E i \in 1..Len(row) : _normalize_token(strip(row[i])) \in IdentifierTokens

\* C24: with the shipped registry detect_file_profile succeeds exactly when
\* some header of the row has the token instrumentidentifier or
\* instrumentid: every spec requires instrumentIdentifier, with these alias
\* tokens, and chargeoff requires nothing else.
C24_SucceedsIffIdentifierHeader ==
  /\ \A i \in 1..Len(DATASET_SPECS) :
       /\ "instrumentIdentifier" \in Range(DATASET_SPECS[i].required_fields)
       /\ { token_memo[a] :
              a \in Range(DATASET_SPECS[i].field_aliases["instrumentIdentifier"]) }
            = IdentifierTokens
  /\ SpecByKey("chargeoff").required_fields = << "instrumentIdentifier" >>
  /\ Detected =>
       ((outcome.kind = "ok") <=> HasIdentifierHeader(sample_headers))

\* a row whose only header of the registry is the identifier is accepted,
\* as chargeoff
C24_Witness ==
  /\ Detected
  /\ outcome.kind = "ok"
  /\ outcome.dataset_key = "chargeoff"
  /\ ViableKeysFor(sample_headers) = { "chargeoff" }
  /\ HasIdentifierHeader(sample_headers)

\* the row resolves instrumentIdentifier together with portfolioIdentifier
\* or reportingDate
HasTwoRequiredOfASpec(row) ==
  /\ Resolvable(SpecByKey("instrument_reference"), "instrumentIdentifier", row)
  /\ \/ Resolvable(SpecByKey("instrument_reference"), "portfolioIdentifier", row)
     \/ Resolvable(SpecByKey("instrument_risk_metric"), "reportingDate", row)

\* C25: with the shipped registry a row that resolves instrumentIdentifier
\* together with portfolioIdentifier or reportingDate is never classified
\* as chargeoff, whatever the file name and the other headers: chargeoff
\* has total_score at most 10 with score_required 5, and a spec with two
\* required fields is viable with total_score at least 10 and
\* score_required 10.
C25_NeverChargeoffWithTwoRequired ==
  (Detected /\ HasTwoRequiredOfASpec(sample_headers)) =>
    /\ outcome.kind = "ok"
    /\ outcome.dataset_key # "chargeoff"
    /\ EvaluationOf("chargeoff").total_score <= 10
    /\ EvaluationOf("chargeoff").score_required = 5
    /\ \E k \in ViableKeysFor(sample_headers) :
         /\ Len(SpecByKey(k).required_fields) = 2
         /\ EvaluationOf(k).score_required = 10
         /\ EvaluationOf(k).total_score >= 10

\* chargeoff at its highest total_score ties the spec returned, which wins
\* on score_required
C25_Witness ==
  /\ Detected
  /\ HasTwoRequiredOfASpec(sample_headers)
  /\ EvaluationOf("chargeoff").total_score = 10
  /\ outcome.kind = "ok"
  /\ outcome.dataset_key # "chargeoff"
  /\ outcome.diagnostics.score = 10

\* the position of the spec in the registry
RegistryIndex(key) ==
  CHOOSE i \in 1..Len(DATASET_SPECS) : DATASET_SPECS[i].key = key

\* the two specs have the same (total_score, score_required, score_optional)
SameTuple(a, b) ==
  /\ EvaluationOf(a).total_score = EvaluationOf(b).total_score
  /\ EvaluationOf(a).score_required = EvaluationOf(b).score_required
  /\ EvaluationOf(a).score_optional = EvaluationOf(b).score_optional

\* among the viable specs that tie with the one returned, the one returned
\* is declared first
ReturnedIsEarliestOfItsTies ==
  (Detected /\ outcome.kind = "ok") =>
    \A k \in ViableKeysFor(sample_headers) :
      SameTuple(k, outcome.dataset_key) =>
        RegistryIndex(outcome.dataset_key) <= RegistryIndex(k)

\* instrument_reference and instrument_result are viable and tie
ReferenceTiesResult ==
  /\ Detected
  /\ { "instrument_reference", "instrument_result" }
       \subseteq ViableKeysFor(sample_headers)
  /\ SameTuple("instrument_reference", "instrument_result")

\* C26 as stated: of viable specs that tie on the whole tuple the one
\* declared earlier is selected, and a file that instrument_reference and
\* instrument_result evaluate alike is always classified as
\* instrument_reference.
C26_TiedReferenceAlwaysSelected ==
  /\ ReturnedIsEarliestOfItsTies
  /\ ReferenceTiesResult =>
       /\ outcome.kind = "ok"
       /\ outcome.dataset_key = "instrument_reference"

\* C26: of viable specs that tie on the whole tuple the one declared earlier
\* wins: a file that instrument_reference and instrument_result evaluate
\* alike is never classified as instrument_result, and it is classified as
\* instrument_reference unless another viable spec has a greater tuple.
C26_TieGoesToEarlierSpec ==
  /\ ReturnedIsEarliestOfItsTies
  /\ ReferenceTiesResult =>
       /\ outcome.kind = "ok"
       /\ outcome.dataset_key # "instrument_result"
       /\ (\A k \in ViableKeysFor(sample_headers) :
             LexAtLeast(EvaluationOf("instrument_reference"), EvaluationOf(k)))
          => outcome.dataset_key = "instrument_reference"

\* the two specs tie at the top and instrument_reference is returned
C26_Witness ==
  /\ ReferenceTiesResult
  /\ outcome.kind = "ok"
  /\ outcome.dataset_key = "instrument_reference"
  /\ SameTuple("instrument_result", outcome.dataset_key)

\* the specs whose evaluation has the highest total_score
HighestKeys == { k \in DatasetKeys : HighestTotal(k) }

\* of them, the one declared first
EarliestHighest ==
  CHOOSE k \in HighestKeys :
    \A other \in HighestKeys : RegistryIndex(k) <= RegistryIndex(other)

Rejected == Detected /\ outcome.kind = "error"

\* C27: when no spec is viable and several evaluations share the highest
\* total_score, the error names the one declared earliest in the registry;
\* when every evaluation scores 0 it names Instrument Reference.
C27_BestGuessIsEarliestHighest ==
  Rejected =>
    /\ IsSubstringOf("resembles '" \o SpecByKey(EarliestHighest).display_name
                       \o "' but is missing",
                     outcome.message)
    /\ (\A k \in DatasetKeys : EvaluationOf(k).total_score = 0) =>
         IsSubstringOf("resembles 'Instrument Reference' but is missing",
                       outcome.message)

\* two specs share a highest total_score above 0, neither of them the first
\* of the registry, and the error names the earlier of the two
C27_Witness ==
  /\ Rejected
  /\ Cardinality(HighestKeys) >= 2
  /\ ~HighestTotal(DATASET_SPECS[1].key)
  /\ IsSubstringOf("resembles '" \o SpecByKey(EarliestHighest).display_name
                     \o "' but is missing",
                   outcome.message)

----------------------------------------------------------------------------
(* Properties of optional slots (checked under SpecSlots).                 *)

\* the slot recorded an error for its upload
UploadFailed(i) == uploaded[i] # None /\ Len(statuses[i].errors) > 0

\* what the page's ready state would be had nothing been dropped on its
\* optional slots
ReadyWithoutOptionalUploads ==
  ready(render_statuses(page_key, configs,
                        [i \in 1..Len(configs) |->
                           IF configs[i].required THEN uploaded[i] ELSE None]))

\* C28: an optional slot never blocks the ready state of the page: whatever
\* is uploaded to the optional slots, a failing file or one that lacks a
\* required expectation of the slot, ready is what it is without them, and
\* it is true when every required slot is loaded with nothing missing.
C28_OptionalSlotNeverBlocks ==
  Rendered =>
    /\ ready(statuses) <=> ReadyWithoutOptionalUploads
    /\ (\A i \in 1..Len(configs) :
          configs[i].required =>
            /\ SlotLoadedSuccessfully(i)
            /\ statuses[i].missing_headers = << >>)
       => ready(statuses)

\* a ready page whose optional slot holds a loaded file that lacks the
\* slot's required expectation
C28_Witness ==
  /\ Rendered
  /\ ready(statuses)
  /\ \E i \in 1..Len(configs) :
       /\ ~configs[i].required
       /\ SlotLoadedSuccessfully(i)
       /\ configs[i].expectations[1].required
       /\ HasMissingEntries(i, configs[i].expectations[1])
       /\ Len(statuses[i].missing_headers) > 0
  /\ \E i \in 1..Len(configs) :
       /\ configs[i].required
       /\ SlotLoadedSuccessfully(i)


----------------------------------------------------------------------------
(* Properties of the recorded columns (checked under SpecSound).           *)

\* the input headers, trimmed, without the blank ones
TrimmedHeaders(cols) == { strip(cols[i]) : i \in 1..Len(cols) } \ { "" }

\* the tokens of the aliases of a field: of its alias list in the spec, or
\* of the field name when the spec lists none for it
AliasTokensOf(spec, field) ==
  IF field \in DOMAIN spec.field_aliases
  THEN { token_memo[spec.field_aliases[field][k]] :
           k \in 1..Len(spec.field_aliases[field]) }
  ELSE { _normalize_token(field) }

\* every key of the dict is one of the fields, and every value is a trimmed
\* input header on the token of an alias of its key
SoundRecord(spec, cols, dict, fields) ==
  /\ DOMAIN dict \subseteq fields
  /\ \A f \in DOMAIN dict :
       /\ dict[f] \in TrimmedHeaders(cols)
       /\ _normalize_token(dict[f]) \in AliasTokensOf(spec, f)

\* C29: every column recorded by resolution is sound: the keys of
\* matched_required, matched_optional and selected are among the spec's
\* required_fields, the spec's identifying_fields and the expectation's
\* candidates, and every recorded value is a trimmed input header whose token
\* is the token of an alias of the field it is recorded for.
C29_RecordedColumnsAreSound ==
  call.kind = "record" =>
    LET spec == SpecByKey(call.spec)
    IN  /\ call_result.evaluation # None =>
             /\ SoundRecord(spec, call.columns,
                            call_result.evaluation[1].matched_required,
                            Range(spec.required_fields))
             /\ SoundRecord(spec, call.columns,
                            call_result.evaluation[1].matched_optional,
                            Range(spec.identifying_fields))
        /\ call_result.selected # None =>
             SoundRecord(spec, call.columns, call_result.selected[1],
                         Range(call.expectation.candidates))

\* both calls made on a file with an untrimmed header: a required field, an
\* identifying field and two candidates recorded, one of the candidates in no
\* alias map, and the untrimmed header recorded trimmed
C29_Witness ==
  /\ call.kind = "record"
  /\ call_result.evaluation # None
  /\ call_result.selected # None
  /\ " instrument_identifier " \in Range(call.columns)
  /\ call_result.evaluation[1].matched_required
       = [f \in {"instrumentIdentifier"} |-> "instrument_identifier"]
  /\ DOMAIN call_result.evaluation[1].matched_optional # {}
  /\ call_result.selected[1]
       = [f \in {"instrumentIdentifier", "loanNumber"} |->
            IF f = "loanNumber" THEN "Loan Number" ELSE "instrument_identifier"]


----------------------------------------------------------------------------
(* Properties of the match mode (checked under SpecMode).                  *)

\* the same expectation with match = "any"
AsAny(e) == [ e EXCEPT !.match = "any" ]

\* C30: _match_columns treats every match mode other than "all" as "any":
\* for an expectation whose match value is neither "all" nor "any", the
\* result is the result for the same expectation with match = "any".
C30_OtherModesMatchAsAny ==
  ( /\ match_pc = "matched"
    /\ expectation.match \notin { "all", "any" } )
  => << selected, missing >>
       = _match_columns(SpecByKey(match_spec), columns, AsAny(expectation))

\* an expectation of match "first" with two candidates that both resolve:
\* only the first is selected, where "all" would select both
C30_Witness ==
  /\ match_pc = "matched"
  /\ expectation.match = "first"
  /\ expectation.candidates = << "reportingDate", "instrumentIdentifier" >>
  /\ columns = << "Instrument ID", "Reporting Date" >>
  /\ selected = [f \in {"reportingDate"} |-> "Reporting Date"]
  /\ missing = << >>

=============================================================================
